---- MODULE Spec2Model ----
(***************************************************************************)
(* Model of the browser mini-game core: the GameLoop of                    *)
(* js/core/game-loop.js and the per-tick update of the racing game of      *)
(* js/games/game1.js.                                                      *)
(*                                                                         *)
(* Times are whole milliseconds.  GameLoop.deltaTime is kept in            *)
(* milliseconds too (the source divides by 1000 and holds seconds), so     *)
(* maxDeltaTime = 0.1 s is 100 here.                                       *)
(***************************************************************************)
EXTENDS Integers, Sequences, FiniteSets, TLC

VARIABLES
    gameLoop,      \* the GameLoop object: state, isRunning, lastTime, deltaTime, animationId
    rafQueue,      \* ids of the frame callbacks requested and not yet run or cancelled
    nextRafId,     \* the id the next requestAnimationFrame call returns
    clock,         \* performance.now()
    lastFrameTs,   \* timestamp handed to the latest frame callback
    tick,          \* record of the latest loop(timestamp) run while isRunning was true
    pausePhase,    \* history: "paused" after pause(), "resumed" after the resume() ending it
    pausedTicks,   \* history: a tick ran during the pause that pausePhase speaks of
    game,          \* the RacingGame object and the timeouts it has set
    dateNow,       \* Date.now()
    updates,       \* number of update(deltaTime) calls made so far
    last,          \* record of the latest update(deltaTime) that passed its guard
    localStorage,  \* the browser's localStorage: its items and how it serves accesses
    storageSystem, \* the StorageSystem object: prefix, supported
    call,          \* record of the latest call of a StorageSystem method
    calls,         \* number of steps taken on the store so far
    emitter,       \* a ParticleEmitter and its particles
    retired,       \* history: the particles the emitter has removed
    emitterSteps,  \* number of steps taken on the emitter so far
    timeController,\* the TimeController object: its time, scale and timers
    timerSteps     \* number of steps taken on the time controller so far

loopVars == <<gameLoop, rafQueue, nextRafId, clock, lastFrameTs, tick,
              pausePhase, pausedTicks>>

raceVars == <<game, dateNow, updates, last>>

storageVars == <<localStorage, storageSystem, call, calls>>

particleVars == <<emitter, retired, emitterSteps>>

timerVars == <<timeController, timerSteps>>

utilVars == <<storageVars, particleVars, timerVars>>

vars == <<loopVars, raceVars, utilVars>>

----------------------------------------------------------------------------
(* Bounds of the exploration *)

MaxClock == 210
MaxRafId == 4

(* Gaps between two readings of the clock, and how far a frame's timestamp
   may lie before the clock reading of the code that runs in that frame. *)
FrameGaps == {60, 150}
FrameLags == {0, 5}

----------------------------------------------------------------------------
(* js/core/game-loop.js *)

INITIALIZING == "initializing"
LOADING == "loading"
MENU == "menu"
PLAYING == "playing"
PAUSED == "paused"
GAME_OVER == "game_over"
COMPLETED == "completed"
TRANSITION == "transition"

GameState == {INITIALIZING, LOADING, MENU, PLAYING, PAUSED, GAME_OVER,
              COMPLETED, TRANSITION}

maxDeltaTime == 100

(* The states handed to setState by the loop's users. *)
SetStateInputs == {MENU, PLAYING, PAUSED, GAME_OVER}

null == 0

(* What a callback handed to the loop may do when it is invoked. *)
CallbackBehaviours == {"none", "pause", "resume", "stop", "restart", "throw"}

(* The loop together with the frame scheduler it talks to, as threaded
   through the calls of one handler.  calls is the list of callbacks and
   scheduler requests made, thrown is set by an exception on its way out,
   stateChanges lists the onStateChange calls made, whileStopped the
   callbacks invoked while isRunning was false. *)
World(gl, q, n, ph, pt) ==
    [state |-> gl.state, isRunning |-> gl.isRunning, lastTime |-> gl.lastTime,
     deltaTime |-> gl.deltaTime, animationId |-> gl.animationId,
     raf |-> q, nextRafId |-> n, phase |-> ph, pausedTicks |-> pt,
     calls |-> <<>>, thrown |-> FALSE, stateChanges |-> <<>>,
     whileStopped |-> <<>>]

LoopOf(w) ==
    [state |-> w.state, isRunning |-> w.isRunning, lastTime |-> w.lastTime,
     deltaTime |-> w.deltaTime, animationId |-> w.animationId]

requestAnimationFrame(w) ==
    [w EXCEPT !.animationId = w.nextRafId,
              !.raf = @ \cup {w.nextRafId},
              !.nextRafId = @ + 1]

start(w, now) ==
    IF w.isRunning THEN w
    ELSE requestAnimationFrame([w EXCEPT !.isRunning = TRUE, !.lastTime = now])

stop(w) ==
    [w EXCEPT !.isRunning = FALSE,
              !.raf = IF w.animationId # null THEN @ \ {w.animationId} ELSE @,
              !.animationId = null]

setState(w, newState, now) ==
    LET w1 == [w EXCEPT !.state = newState, !.phase = "none", !.pausedTicks = FALSE,
                        !.stateChanges = Append(@, <<newState, w.state>>)]
    IN  IF newState = PLAYING /\ ~w1.isRunning THEN start(w1, now) ELSE w1

(* pause() that also stops the frame scheduling *)
pauseStoppingLoop(w, now) ==
    IF w.state = PLAYING
    THEN stop([setState(w, PAUSED, now) EXCEPT !.phase = "paused"])
    ELSE w

(* pause() that pauses whatever the state *)
pauseFromAnyState(w, now) ==
    [setState(w, PAUSED, now) EXCEPT !.phase = "paused"]

pause(w, now) ==
    IF w.state = PLAYING
    THEN [setState(w, PAUSED, now) EXCEPT !.phase = "paused"]
    ELSE w

(* resume() that goes back to the menu *)
resumeToMenu(w, now) ==
    IF w.state = PAUSED
    THEN [setState(w, MENU, now) EXCEPT
              !.phase = IF w.phase = "paused" THEN "resumed" ELSE "none",
              !.pausedTicks = w.pausedTicks]
    ELSE w

resume(w, now) ==
    IF w.state = PAUSED
    THEN [setState(w, PLAYING, now) EXCEPT
              !.phase = IF w.phase = "paused" THEN "resumed" ELSE "none",
              !.pausedTicks = w.pausedTicks]
    ELSE w

togglePause(w, now) ==
    IF w.state = PLAYING THEN pause(w, now)
    ELSE IF w.state = PAUSED THEN resume(w, now)
    ELSE w

Invoke(w, name) ==
    [w EXCEPT !.calls = Append(@, [cb |-> name, deltaTime |-> w.deltaTime]),
              !.whileStopped = IF w.isRunning THEN @ ELSE Append(@, name)]

Callback(w, b, now) ==
    CASE b = "none"    -> w
      [] b = "pause"   -> pause(w, now)
      [] b = "resume"  -> resume(w, now)
      [] b = "stop"    -> stop(w)
      [] b = "restart" -> start(stop(w), now)
      [] b = "throw"   -> [w EXCEPT !.thrown = TRUE]

(* loop() that updates in every state but PAUSED *)
loopUpdatingUnlessPaused(w, timestamp, ub, rb, now) ==
    IF ~w.isRunning THEN w
    ELSE
      LET d  == timestamp - w.lastTime
          w1 == [w EXCEPT !.deltaTime = IF d > maxDeltaTime THEN maxDeltaTime ELSE d,
                          !.lastTime = timestamp]
          w2 == IF w1.state # PAUSED
                THEN Callback(Invoke(w1, "onUpdate"), ub, now)
                ELSE w1
          w3 == IF w2.thrown THEN w2
                ELSE Callback(Invoke(w2, "onRender"), rb, now)
          w4 == IF w3.thrown THEN w3
                ELSE Invoke(requestAnimationFrame(w3), "requestAnimationFrame")
      IN  [w4 EXCEPT !.pausedTicks = @ \/ (w.phase = "paused")]

(* loop() without the upper clamp on deltaTime *)
loopUnclamped(w, timestamp, ub, rb, now) ==
    IF ~w.isRunning THEN w
    ELSE
      LET d  == timestamp - w.lastTime
          w1 == [w EXCEPT !.deltaTime = d, !.lastTime = timestamp]
          w2 == IF w1.state = PLAYING
                THEN Callback(Invoke(w1, "onUpdate"), ub, now)
                ELSE w1
          w3 == IF w2.thrown THEN w2
                ELSE Callback(Invoke(w2, "onRender"), rb, now)
          w4 == IF w3.thrown THEN w3
                ELSE Invoke(requestAnimationFrame(w3), "requestAnimationFrame")
      IN  [w4 EXCEPT !.pausedTicks = @ \/ (w.phase = "paused")]

(* loop() that requests the next frame although a callback threw *)
loopSchedulingAfterThrow(w, timestamp, ub, rb, now) ==
    IF ~w.isRunning THEN w
    ELSE
      LET d  == timestamp - w.lastTime
          w1 == [w EXCEPT !.deltaTime = IF d > maxDeltaTime THEN maxDeltaTime ELSE d,
                          !.lastTime = timestamp]
          w2 == IF w1.state = PLAYING
                THEN Callback(Invoke(w1, "onUpdate"), ub, now)
                ELSE w1
          w3 == IF w2.thrown THEN w2
                ELSE Callback(Invoke(w2, "onRender"), rb, now)
          w4 == Invoke(requestAnimationFrame(w3), "requestAnimationFrame")
      IN  [w4 EXCEPT !.pausedTicks = @ \/ (w.phase = "paused")]

loop(w, timestamp, ub, rb, now) ==
    IF ~w.isRunning THEN w
    ELSE
      LET d  == timestamp - w.lastTime
          w1 == [w EXCEPT !.deltaTime = IF d > maxDeltaTime THEN maxDeltaTime ELSE d,
                          !.lastTime = timestamp]
          w2 == IF w1.state = PLAYING
                THEN Callback(Invoke(w1, "onUpdate"), ub, now)
                ELSE w1
          w3 == IF w2.thrown THEN w2
                ELSE Callback(Invoke(w2, "onRender"), rb, now)
          w4 == IF w3.thrown THEN w3
                ELSE Invoke(requestAnimationFrame(w3), "requestAnimationFrame")
      IN  [w4 EXCEPT !.pausedTicks = @ \/ (w.phase = "paused")]

----------------------------------------------------------------------------
(* js/games/game1.js                                                       *)
(*                                                                         *)
(* Positions are whole pixels.  playerCar.speed and its acceleration and   *)
(* deceleration are kept in tenths (maxSpeed 15 is 150), trackProgress in  *)
(* 1/3000ths of a percent, which is what one tick at speed 0.1 adds.       *)
(* Enemy cars and power-ups carry history fields next to the source's: an  *)
(* id, and for enemy cars the position y0 at which the car was first seen, *)
(* the number n of ticks that moved it and the sum sumDt of their deltas.  *)
(* The game carries the ids gone of the entities removed, the number       *)
(* endGameCalls of calls of endGame and the number events of key presses, *)
(* pause clicks and window blurs handled.                                  *)

(* The canvas of the page, which the sources take from the document. *)
CanvasWidth == 600
CanvasHeight == 600

(* Largest array lengths and number of entities explored. *)
MaxEnemies == 2
MaxPowerUps == 2
MaxEntityId == 2

trackCount == 3
trackWidth == CanvasWidth \div trackCount

POWERUP_TYPES ==
    [SHIELD       |-> [id |-> "shield", duration |-> 3000],
     DOUBLE_SCORE |-> [id |-> "double", duration |-> 30000],
     MAGNET       |-> [id |-> "magnet", duration |-> 10000]]

(* x of a body of the given width centred in a lane *)
LaneX(track, width) == track * trackWidth + (trackWidth - width) \div 2

(* Enemy speeds drawn by generateEnemyCar: 3 + Math.random() * 5 *)
EnemySpeeds == {3, 7}

RemoveAt(seq, i) == SubSeq(seq, 1, i - 1) \o SubSeq(seq, i + 1, Len(seq))

Ids(seq) == {seq[i].id : i \in 1..Len(seq)}

Abs(a) == IF a < 0 THEN -a ELSE a

Sign(a) == IF a < 0 THEN -1 ELSE IF a > 0 THEN 1 ELSE 0

(* a / b rounded towards zero *)
Quot(a, b) == Sign(a) * Sign(b) * (Abs(a) \div Abs(b))

ISqrt(a) == CHOOSE r \in 0..a : r * r <= a /\ (r + 1) * (r + 1) > a

(* Calls into the audio and particle systems, and the methods of
   RacingGame that draw or write to the page: none of them touches the game
   state. *)
audioSystemPlay(g) == g

createExplosion(g) == g

particleSystemUpdate(g, deltaTime) == g

updateUI(g) == g

updateStatusEffects(g) == g

showFloatingText(g) == g

(* endGame(): the game stops running and the game-over screen is shown. *)
endGame(g) ==
    [g EXCEPT !.gameRunning = FALSE,
              !.gameOverScreen = "flex",
              !.endGameCalls = @ + 1]

(* The name of the playerEffects entry a power-up type id switches on *)
EffectOf(id) ==
    CASE id = "shield" -> "shield"
      [] id = "double" -> "doubleScore"
      [] id = "magnet" -> "magnet"

(* removePowerUpEffect(powerUpType): clears the effect's flag, whatever its
   endTime. *)
removePowerUpEffect(g, powerUpType) ==
    LET g1 == [g EXCEPT !.playerEffects[EffectOf(powerUpType.id)].active = FALSE]
    IN  updateStatusEffects(
            IF powerUpType.id = "shield"
            THEN [g1 EXCEPT !.playerCar.isInvulnerable = FALSE]
            ELSE g1)

(* checkEffectsExpiry(): clears every active effect whose endTime has come. *)
ExpireEffect(g, key, t) ==
    IF g.playerEffects[EffectOf(POWERUP_TYPES[key].id)].active
       /\ t >= g.playerEffects[EffectOf(POWERUP_TYPES[key].id)].endTime
    THEN removePowerUpEffect(g, POWERUP_TYPES[key])
    ELSE g

checkEffectsExpiry(g, t) ==
    ExpireEffect(ExpireEffect(ExpireEffect(g, "SHIELD", t), "DOUBLE_SCORE", t),
                 "MAGNET", t)

(* updatePlayerCar that keeps the accumulated progress when a lap completes *)
updatePlayerCarKeepingProgress(g) ==
    LET car == g.playerCar
        speed1 ==
            IF g.keys.ArrowUp /\ car.speed < car.maxSpeed
                THEN car.speed + car.acceleration
            ELSE IF g.keys.ArrowDown /\ car.speed > 0
                THEN car.speed - car.deceleration * 2
            ELSE IF car.speed > 0 THEN car.speed - car.deceleration
            ELSE IF car.speed < 0 THEN 0
            ELSE car.speed
        left  == g.keys.ArrowLeft /\ car.track > 0
        right == ~left /\ g.keys.ArrowRight /\ car.track < trackCount - 1
        track1 == IF left THEN car.track - 1
                  ELSE IF right THEN car.track + 1 ELSE car.track
        g1 == [g EXCEPT
                 !.playerCar.speed = speed1,
                 !.playerCar.track = track1,
                 !.playerCar.x = IF left \/ right THEN LaneX(track1, car.width) ELSE @,
                 !.keys.ArrowLeft = IF left THEN FALSE ELSE @,
                 !.keys.ArrowRight = IF right THEN FALSE ELSE @,
                 !.speed = speed1]
        progress == g1.trackProgress + speed1
    IN  IF speed1 > 0
        THEN IF progress >= 300000
             THEN [g1 EXCEPT !.trackProgress = progress,
                             !.currentLap = @ + 1,
                             !.score = @ + 100]
             ELSE [g1 EXCEPT !.trackProgress = progress]
        ELSE g1

updatePlayerCar(g) ==
    LET car == g.playerCar
        speed1 ==
            IF g.keys.ArrowUp /\ car.speed < car.maxSpeed
                THEN car.speed + car.acceleration
            ELSE IF g.keys.ArrowDown /\ car.speed > 0
                THEN car.speed - car.deceleration * 2
            ELSE IF car.speed > 0 THEN car.speed - car.deceleration
            ELSE IF car.speed < 0 THEN 0
            ELSE car.speed
        left  == g.keys.ArrowLeft /\ car.track > 0
        right == ~left /\ g.keys.ArrowRight /\ car.track < trackCount - 1
        track1 == IF left THEN car.track - 1
                  ELSE IF right THEN car.track + 1 ELSE car.track
        g1 == [g EXCEPT
                 !.playerCar.speed = speed1,
                 !.playerCar.track = track1,
                 !.playerCar.x = IF left \/ right THEN LaneX(track1, car.width) ELSE @,
                 !.keys.ArrowLeft = IF left THEN FALSE ELSE @,
                 !.keys.ArrowRight = IF right THEN FALSE ELSE @,
                 !.speed = speed1]
        g2 == IF left \/ right THEN audioSystemPlay(g1) ELSE g1
        progress == g2.trackProgress + speed1
    IN  IF speed1 > 0
        THEN IF progress >= 300000
             THEN showFloatingText(audioSystemPlay(
                      [g2 EXCEPT !.trackProgress = 0,
                                 !.currentLap = @ + 1,
                                 !.score = @ + 100]))
             ELSE [g2 EXCEPT !.trackProgress = progress]
        ELSE g2

generateEnemyCar(g, track, enemySpeed) ==
    [g EXCEPT !.enemyCars = Append(@,
                 [x |-> LaneX(track, 50), y |-> -100, width |-> 50,
                  height |-> 100, track |-> track, speed |-> enemySpeed,
                  id |-> g.nextId, y0 |-> -100, n |-> 0, sumDt |-> 0]),
              !.nextId = @ + 1]

(* car.y += car.speed scaled by the tick's delta in seconds *)
moveEnemyCarByDelta(car, deltaTime) ==
    [car EXCEPT !.y = @ + (car.speed * deltaTime) \div 1000,
                !.n = @ + 1,
                !.sumDt = @ + deltaTime]

(* car.y += car.speed *)
moveEnemyCar(car, deltaTime) ==
    [car EXCEPT !.y = @ + car.speed,
                !.n = @ + 1,
                !.sumDt = @ + deltaTime]

(* The backward scan of updateEnemyCars, from index i down *)
RECURSIVE scanEnemyCars(_, _, _)
scanEnemyCars(g, i, deltaTime) ==
    IF i < 1 THEN g
    ELSE LET car == moveEnemyCar(g.enemyCars[i], deltaTime)
         IN  IF car.y > CanvasHeight
             THEN scanEnemyCars(
                      [g EXCEPT !.enemyCars = RemoveAt(@, i),
                                !.score = @ + (IF g.playerEffects.doubleScore.active
                                               THEN 10 * 2 ELSE 10),
                                !.gone = @ \cup {car.id}],
                      i - 1, deltaTime)
             ELSE scanEnemyCars([g EXCEPT !.enemyCars[i] = car], i - 1, deltaTime)

(* A forward scan that steps over the car following a removed one *)
RECURSIVE scanEnemyCarsForward(_, _, _)
scanEnemyCarsForward(g, i, deltaTime) ==
    IF i > Len(g.enemyCars) THEN g
    ELSE LET car == moveEnemyCar(g.enemyCars[i], deltaTime)
         IN  IF car.y > CanvasHeight
             THEN scanEnemyCarsForward(
                      [g EXCEPT !.enemyCars = RemoveAt(@, i),
                                !.score = @ + (IF g.playerEffects.doubleScore.active
                                               THEN 10 * 2 ELSE 10),
                                !.gone = @ \cup {car.id}],
                      i + 1, deltaTime)
             ELSE scanEnemyCarsForward([g EXCEPT !.enemyCars[i] = car], i + 1, deltaTime)

updateEnemyCarsForward(g, deltaTime, spawn) ==
    LET g1 == scanEnemyCarsForward(g, 1, deltaTime)
    IN  IF spawn # <<>> THEN generateEnemyCar(g1, spawn[1], spawn[2]) ELSE g1

(* spawn is <<>> when Math.random() >= 0.03, else <<track, speed>> *)
updateEnemyCars(g, deltaTime, spawn) ==
    LET g1 == scanEnemyCars(g, Len(g.enemyCars), deltaTime)
    IN  IF spawn # <<>> THEN generateEnemyCar(g1, spawn[1], spawn[2]) ELSE g1

generatePowerUp(g, track, randomType) ==
    [g EXCEPT !.powerUps = Append(@,
                 [x |-> LaneX(track, 30), y |-> -30, size |-> 30,
                  track |-> track, type |-> randomType, nan |-> FALSE,
                  id |-> g.nextId]),
              !.nextId = @ + 1]

(* One power-up after the move of updatePowerUps.  nan marks coordinates
   that have become NaN (0/0 when the power-up sits on the player's centre);
   off the player's column the pull is rounded to whole pixels. *)
movePowerUp(g, powerUp) ==
    LET dx == (g.playerCar.x + g.playerCar.width \div 2) - (powerUp.x + powerUp.size \div 2)
        dy == (g.playerCar.y + g.playerCar.height \div 2) - (powerUp.y + powerUp.size \div 2)
        sq == dx * dx + dy * dy
        range == g.playerEffects.magnet.range
    IN  IF powerUp.nan THEN powerUp
        ELSE IF g.playerEffects.magnet.active /\ sq < range * range
        THEN IF sq = 0 THEN [powerUp EXCEPT !.nan = TRUE]
             ELSE IF dx = 0 THEN [powerUp EXCEPT !.y = @ + Sign(dy) * 8]
             ELSE [powerUp EXCEPT !.x = @ + Quot(dx * 8, ISqrt(sq)),
                                  !.y = @ + Quot(dy * 8, ISqrt(sq))]
        ELSE [powerUp EXCEPT !.y = @ + 5]

RECURSIVE scanPowerUps(_, _)
scanPowerUps(g, i) ==
    IF i < 1 THEN g
    ELSE LET powerUp == movePowerUp(g, g.powerUps[i])
         IN  IF ~powerUp.nan /\ powerUp.y > CanvasHeight
             THEN scanPowerUps([g EXCEPT !.powerUps = RemoveAt(@, i),
                                         !.gone = @ \cup {powerUp.id}], i - 1)
             ELSE scanPowerUps([g EXCEPT !.powerUps[i] = powerUp], i - 1)

(* spawn is <<>> when Math.random() >= 0.015, else <<track, type>> *)
updatePowerUps(g, spawn) ==
    LET g1 == scanPowerUps(g, Len(g.powerUps))
    IN  IF spawn # <<>> THEN generatePowerUp(g1, spawn[1], spawn[2]) ELSE g1

(* applyPowerUpEffect with endTime counted back from the duration *)
applyPowerUpEffectCountingBack(g, powerUpType, t) ==
    LET endTime == powerUpType.duration - t
        g1 == [g EXCEPT !.playerEffects[EffectOf(powerUpType.id)].active = TRUE,
                        !.playerEffects[EffectOf(powerUpType.id)].endTime = endTime]
        g2 == IF powerUpType.id = "shield"
              THEN [g1 EXCEPT !.playerCar.isInvulnerable = TRUE]
              ELSE g1
    IN  [updateStatusEffects(g2) EXCEPT
            !.timeouts = Append(@, [powerUpType |-> powerUpType,
                                    due |-> t + powerUpType.duration])]

applyPowerUpEffect(g, powerUpType, t) ==
    LET endTime == t + powerUpType.duration
        g1 == [g EXCEPT !.playerEffects[EffectOf(powerUpType.id)].active = TRUE,
                        !.playerEffects[EffectOf(powerUpType.id)].endTime = endTime]
        g2 == IF powerUpType.id = "shield"
              THEN [g1 EXCEPT !.playerCar.isInvulnerable = TRUE]
              ELSE g1
    IN  [updateStatusEffects(g2) EXCEPT
            !.timeouts = Append(@, [powerUpType |-> powerUpType,
                                    due |-> t + powerUpType.duration])]

(* The bounding-box test of checkCollisions *)
HitsEnemy(g, car) ==
    /\ g.playerCar.x < car.x + car.width
    /\ g.playerCar.x + g.playerCar.width > car.x
    /\ g.playerCar.y < car.y + car.height
    /\ g.playerCar.y + g.playerCar.height > car.y

HitsPowerUp(g, powerUp) ==
    /\ ~powerUp.nan
    /\ g.playerCar.x < powerUp.x + powerUp.size
    /\ g.playerCar.x + g.playerCar.width > powerUp.x
    /\ g.playerCar.y < powerUp.y + powerUp.size
    /\ g.playerCar.y + g.playerCar.height > powerUp.y

(* The first enemy the backward scan finds on the player, 0 if none *)
RECURSIVE enemyHit(_, _)
enemyHit(g, i) ==
    IF i < 1 THEN 0
    ELSE IF HitsEnemy(g, g.enemyCars[i]) THEN i
    ELSE enemyHit(g, i - 1)

(* A scan of the power-ups that returns after the first one collected *)
RECURSIVE collectFirstPowerUp(_, _, _)
collectFirstPowerUp(g, i, t) ==
    IF i < 1 THEN g
    ELSE LET powerUp == g.powerUps[i]
         IN  IF HitsPowerUp(g, powerUp)
             THEN updateUI(applyPowerUpEffect(
                      createExplosion(audioSystemPlay(
                          [g EXCEPT !.powerUps = RemoveAt(@, i),
                                    !.gone = @ \cup {powerUp.id}])),
                      POWERUP_TYPES[powerUp.type], t))
             ELSE collectFirstPowerUp(g, i - 1, t)

RECURSIVE collectPowerUps(_, _, _)
collectPowerUps(g, i, t) ==
    IF i < 1 THEN g
    ELSE LET powerUp == g.powerUps[i]
         IN  IF HitsPowerUp(g, powerUp)
             THEN collectPowerUps(
                      updateUI(applyPowerUpEffect(
                          createExplosion(audioSystemPlay(
                              [g EXCEPT !.powerUps = RemoveAt(@, i),
                                        !.gone = @ \cup {powerUp.id}])),
                          POWERUP_TYPES[powerUp.type], t)),
                      i - 1, t)
             ELSE collectPowerUps(g, i - 1, t)

(* checkCollisions that takes a life whether or not the shield is up *)
checkCollisionsIgnoringShield(g, t) ==
    LET i == enemyHit(g, Len(g.enemyCars))
    IN  IF i > 0
        THEN IF FALSE
             THEN audioSystemPlay(
                      [createExplosion(g) EXCEPT
                           !.enemyCars = RemoveAt(@, i),
                           !.gone = @ \cup {g.enemyCars[i].id},
                           !.score = @ + 20])
             ELSE LET g1 == updateUI(audioSystemPlay(
                                [createExplosion(g) EXCEPT
                                     !.enemyCars = RemoveAt(@, i),
                                     !.gone = @ \cup {g.enemyCars[i].id},
                                     !.lives = @ - 1]))
                  IN  IF g1.lives <= 0 THEN endGame(audioSystemPlay(g1)) ELSE g1
        ELSE collectPowerUps(g, Len(g.powerUps), t)

(* checkCollisions that ends the game only below zero lives *)
checkCollisionsEndingBelowZero(g, t) ==
    LET i == enemyHit(g, Len(g.enemyCars))
    IN  IF i > 0
        THEN IF g.playerEffects.shield.active
             THEN audioSystemPlay(
                      [createExplosion(g) EXCEPT
                           !.enemyCars = RemoveAt(@, i),
                           !.gone = @ \cup {g.enemyCars[i].id},
                           !.score = @ + 20])
             ELSE LET g1 == updateUI(audioSystemPlay(
                                [createExplosion(g) EXCEPT
                                     !.enemyCars = RemoveAt(@, i),
                                     !.gone = @ \cup {g.enemyCars[i].id},
                                     !.lives = @ - 1]))
                  IN  IF g1.lives < 0 THEN endGame(audioSystemPlay(g1)) ELSE g1
        ELSE collectPowerUps(g, Len(g.powerUps), t)

(* checkCollisions that goes on to the power-ups after an enemy car *)
checkCollisionsWithoutReturn(g, t) ==
    LET i == enemyHit(g, Len(g.enemyCars))
    IN  IF i > 0
        THEN IF g.playerEffects.shield.active
             THEN collectPowerUps(audioSystemPlay(
                      [createExplosion(g) EXCEPT
                           !.enemyCars = RemoveAt(@, i),
                           !.gone = @ \cup {g.enemyCars[i].id},
                           !.score = @ + 20]), Len(g.powerUps), t)
             ELSE LET g1 == updateUI(audioSystemPlay(
                                [createExplosion(g) EXCEPT
                                     !.enemyCars = RemoveAt(@, i),
                                     !.gone = @ \cup {g.enemyCars[i].id},
                                     !.lives = @ - 1]))
                  IN  collectPowerUps(
                          IF g1.lives <= 0 THEN endGame(audioSystemPlay(g1)) ELSE g1,
                          Len(g.powerUps), t)
        ELSE collectPowerUps(g, Len(g.powerUps), t)

checkCollisions(g, t) ==
    LET i == enemyHit(g, Len(g.enemyCars))
    IN  IF i > 0
        THEN IF g.playerEffects.shield.active
             THEN audioSystemPlay(
                      [createExplosion(g) EXCEPT
                           !.enemyCars = RemoveAt(@, i),
                           !.gone = @ \cup {g.enemyCars[i].id},
                           !.score = @ + 20])
             ELSE LET g1 == updateUI(audioSystemPlay(
                                [createExplosion(g) EXCEPT
                                     !.enemyCars = RemoveAt(@, i),
                                     !.gone = @ \cup {g.enemyCars[i].id},
                                     !.lives = @ - 1]))
                  IN  IF g1.lives <= 0 THEN endGame(audioSystemPlay(g1)) ELSE g1
        ELSE collectPowerUps(g, Len(g.powerUps), t)

(* The stages of update(deltaTime) past its guard, each on the result of
   the one before *)
AfterPlayer(g) == updatePlayerCar(g)

AfterEnemies(g, deltaTime, spawnE) ==
    updateEnemyCars(AfterPlayer(g), deltaTime, spawnE)

AfterPowerUps(g, deltaTime, spawnE, spawnP) ==
    updatePowerUps(AfterEnemies(g, deltaTime, spawnE), spawnP)

AfterCollisions(g, deltaTime, spawnE, spawnP, t) ==
    checkCollisions(AfterPowerUps(g, deltaTime, spawnE, spawnP), t)

(* update() that goes on after the game has stopped running *)
updateAfterGameOver(g, deltaTime, spawnE, spawnP, t) ==
    IF g.gamePaused \/ g.countDownActive THEN g
    ELSE particleSystemUpdate(
             checkEffectsExpiry(AfterCollisions(g, deltaTime, spawnE, spawnP, t), t),
             deltaTime)

(* update() that goes on while the game is paused *)
updateWhilePaused(g, deltaTime, spawnE, spawnP, t) ==
    IF ~g.gameRunning \/ g.countDownActive THEN g
    ELSE particleSystemUpdate(
             checkEffectsExpiry(AfterCollisions(g, deltaTime, spawnE, spawnP, t), t),
             deltaTime)

(* update() without the call of checkEffectsExpiry *)
updateWithoutExpiry(g, deltaTime, spawnE, spawnP, t) ==
    IF ~g.gameRunning \/ g.gamePaused \/ g.countDownActive THEN g
    ELSE particleSystemUpdate(AfterCollisions(g, deltaTime, spawnE, spawnP, t),
                              deltaTime)

update(g, deltaTime, spawnE, spawnP, t) ==
    IF ~g.gameRunning \/ g.gamePaused \/ g.countDownActive THEN g
    ELSE particleSystemUpdate(
             checkEffectsExpiry(AfterCollisions(g, deltaTime, spawnE, spawnP, t), t),
             deltaTime)

laneChangeCooldown == 200

(* handleTouchMove that does not look at gamePaused *)
handleTouchMoveWhilePaused(g, deltaX, deltaY, now) ==
    IF ~g.gameRunning THEN g
    ELSE
      LET car == g.playerCar
          swipe == Abs(deltaX) > 30 /\ now - g.lastLaneChangeTime > laneChangeCooldown
          right == swipe /\ deltaX > 0 /\ car.track < trackCount - 1
          left  == swipe /\ ~right /\ deltaX < 0 /\ car.track > 0
          track1 == IF right THEN car.track + 1
                    ELSE IF left THEN car.track - 1 ELSE car.track
          speed1 == IF Abs(deltaY) > 20 /\ deltaY > 0 /\ car.speed > 0
                        THEN car.speed - car.deceleration * 3
                    ELSE IF Abs(deltaY) > 20 /\ deltaY < 0 /\ car.speed < car.maxSpeed
                        THEN car.speed + car.acceleration * 2
                    ELSE car.speed
      IN  [g EXCEPT !.playerCar.track = track1,
                    !.playerCar.x = IF right \/ left
                                    THEN LaneX(track1, car.width) ELSE @,
                    !.playerCar.speed = speed1,
                    !.lastLaneChangeTime = IF right \/ left THEN now ELSE @]

(* handleTouchMove that changes lane without looking at the edge lanes *)
handleTouchMoveOffTrack(g, deltaX, deltaY, now) ==
    IF ~g.gameRunning \/ g.gamePaused THEN g
    ELSE
      LET car == g.playerCar
          swipe == Abs(deltaX) > 30 /\ now - g.lastLaneChangeTime > laneChangeCooldown
          right == swipe /\ deltaX > 0
          left  == swipe /\ ~right /\ deltaX < 0
          track1 == IF right THEN car.track + 1
                    ELSE IF left THEN car.track - 1 ELSE car.track
          speed1 == IF Abs(deltaY) > 20 /\ deltaY > 0 /\ car.speed > 0
                        THEN car.speed - car.deceleration * 3
                    ELSE IF Abs(deltaY) > 20 /\ deltaY < 0 /\ car.speed < car.maxSpeed
                        THEN car.speed + car.acceleration * 2
                    ELSE car.speed
      IN  [g EXCEPT !.playerCar.track = track1,
                    !.playerCar.x = IF right \/ left
                                    THEN LaneX(track1, car.width) ELSE @,
                    !.playerCar.speed = speed1,
                    !.lastLaneChangeTime = IF right \/ left THEN now ELSE @]

(* handleTouchMove(e), for a touch deltaX to the right of and deltaY below
   the point the touch started from *)
handleTouchMove(g, deltaX, deltaY, now) ==
    IF ~g.gameRunning \/ g.gamePaused THEN g
    ELSE
      LET car == g.playerCar
          swipe == Abs(deltaX) > 30 /\ now - g.lastLaneChangeTime > laneChangeCooldown
          right == swipe /\ deltaX > 0 /\ car.track < trackCount - 1
          left  == swipe /\ ~right /\ deltaX < 0 /\ car.track > 0
          track1 == IF right THEN car.track + 1
                    ELSE IF left THEN car.track - 1 ELSE car.track
          speed1 == IF Abs(deltaY) > 20 /\ deltaY > 0 /\ car.speed > 0
                        THEN car.speed - car.deceleration * 3
                    ELSE IF Abs(deltaY) > 20 /\ deltaY < 0 /\ car.speed < car.maxSpeed
                        THEN car.speed + car.acceleration * 2
                    ELSE car.speed
      IN  [g EXCEPT !.playerCar.track = track1,
                    !.playerCar.x = IF right \/ left
                                    THEN LaneX(track1, car.width) ELSE @,
                    !.playerCar.speed = speed1,
                    !.lastLaneChangeTime = IF right \/ left THEN now ELSE @]

(* The drawing methods of render(): they draw the game on the canvas and
   leave the game as it is.  drawn tells whether the last call of render()
   drew. *)
drawScene(g) == [g EXCEPT !.drawn = TRUE]

(* render() that draws while the game is paused *)
renderWhilePaused(g) ==
    IF ~g.gameRunning \/ g.countDownActive THEN [g EXCEPT !.drawn = FALSE]
    ELSE updateUI(drawScene(g))

render(g) ==
    IF ~g.gameRunning \/ g.gamePaused \/ g.countDownActive
    THEN [g EXCEPT !.drawn = FALSE]
    ELSE updateUI(drawScene(g))

----------------------------------------------------------------------------
(* js/utils/storage.js                                                     *)
(*                                                                         *)
(* localStorage is a record: items, the map from the keys present to their *)
(* strings, and mode, what the browser does with an access: "ok" serves    *)
(* it, "full" serves reads and removals and throws on setItem (quota       *)
(* exceeded), "denied" throws on every access.  A JavaScript value is a    *)
(* record of its type and its text.  An operation gives a record: ls, the  *)
(* store it leaves, threw, whether an exception left it, and its value.    *)

prefix == "gameverse_"
testKey == "__test__"

StorageModes == {"ok", "full", "denied"}

startsWith(key, p) == Len(key) >= Len(p) /\ SubSeq(key, 1, Len(p)) = p

JsNull == [type |-> "null", text |-> "null"]
JsUndefined == [type |-> "undefined", text |-> "undefined"]
JsNumber(t) == [type |-> "number", text |-> t]
JsString(t) == [type |-> "string", text |-> t]
JsCircular == [type |-> "object", text |-> "circular"]

Digits == {"0", "1", "2", "3", "4", "5", "6", "7", "8", "9"}

IsNumeral(s) == Len(s) > 0 /\ \A i \in 1..Len(s) : SubSeq(s, i, i) \in Digits

IsQuoted(s) ==
    /\ Len(s) >= 2
    /\ SubSeq(s, 1, 1) = "\""
    /\ SubSeq(s, Len(s), Len(s)) = "\""

(* JSON.stringify: a number gives its numeral and NaN "null", a string its
   text in quotes, undefined gives undefined, an object holding itself throws *)
JSONstringify(value) ==
    CASE value.type = "number" ->
             [threw |-> FALSE,
              value |-> IF IsNumeral(value.text) THEN JsString(value.text)
                        ELSE JsString("null")]
      [] value.type = "string" ->
             [threw |-> FALSE, value |-> JsString("\"" \o value.text \o "\"")]
      [] value.type = "null" -> [threw |-> FALSE, value |-> JsString("null")]
      [] value.type = "undefined" -> [threw |-> FALSE, value |-> JsUndefined]
      [] OTHER -> [threw |-> TRUE, value |-> JsUndefined]

(* JSON.parse: throws on a text that is not JSON *)
JSONparse(text) ==
    IF text = "null" THEN [threw |-> FALSE, value |-> JsNull]
    ELSE IF IsNumeral(text) THEN [threw |-> FALSE, value |-> JsNumber(text)]
    ELSE IF IsQuoted(text)
         THEN [threw |-> FALSE,
               value |-> JsString(SubSeq(text, 2, Len(text) - 1))]
    ELSE [threw |-> TRUE, value |-> JsUndefined]

(* localStorage.setItem(key, value): the value is stored as a string *)
lsSetItem(ls, key, value) ==
    IF ls.mode # "ok" THEN [ls |-> ls, threw |-> TRUE]
    ELSE [ls |-> [ls EXCEPT !.items =
                      [k \in DOMAIN ls.items \cup {key} |->
                          IF k = key THEN value.text ELSE ls.items[k]]],
          threw |-> FALSE]

(* localStorage.getItem(key): the string, or null for a key not present *)
lsGetItem(ls, key) ==
    IF ls.mode = "denied" THEN [threw |-> TRUE, value |-> JsUndefined]
    ELSE [threw |-> FALSE,
          value |-> IF key \in DOMAIN ls.items THEN JsString(ls.items[key])
                    ELSE JsNull]

(* localStorage.removeItem(key) *)
lsRemoveItem(ls, key) ==
    IF ls.mode = "denied" THEN [ls |-> ls, threw |-> TRUE]
    ELSE [ls |-> [ls EXCEPT !.items =
                      [k \in DOMAIN ls.items \ {key} |-> ls.items[k]]],
          threw |-> FALSE]

(* localStorage.clear() *)
lsClear(ls) ==
    IF ls.mode = "denied" THEN [ls |-> ls, threw |-> TRUE]
    ELSE [ls |-> [ls EXCEPT !.items = << >>], threw |-> FALSE]

checkLocalStorageSupport(ls) ==
    LET set == lsSetItem(ls, testKey, JsString(testKey))
        removed == lsRemoveItem(set.ls, testKey)
    IN  IF set.threw THEN [ls |-> set.ls, value |-> FALSE]
        ELSE IF removed.threw THEN [ls |-> removed.ls, value |-> FALSE]
        ELSE [ls |-> removed.ls, value |-> TRUE]

(* new StorageSystem(): the object and the store its support check leaves *)
StorageSystem(ls) ==
    LET check == checkLocalStorageSupport(ls)
    IN  [ls |-> check.ls,
         this |-> [prefix |-> prefix, supported |-> check.value]]

getPrefixedKey(this, key) == this.prefix \o key

(* The outcome of a method: the store, the value returned, whether an
   exception left the method, whether one was caught and logged inside it *)
Returned(ls, value) ==
    [ls |-> ls, value |-> value, threw |-> FALSE, caught |-> FALSE]

Caught(ls, value) ==
    [ls |-> ls, value |-> value, threw |-> FALSE, caught |-> TRUE]

Thrown(ls) ==
    [ls |-> ls, value |-> JsUndefined, threw |-> TRUE, caught |-> FALSE]

setItemUnguarded(this, ls, key, value) ==
    LET stringValue == JSONstringify(value)
        set == lsSetItem(ls, getPrefixedKey(this, key), stringValue.value)
    IN  IF stringValue.threw THEN Thrown(ls)
        ELSE IF set.threw THEN Thrown(set.ls)
        ELSE Returned(set.ls, TRUE)

setItem(this, ls, key, value) ==
    IF ~this.supported THEN Returned(ls, FALSE)
    ELSE LET stringValue == JSONstringify(value)
             set == lsSetItem(ls, getPrefixedKey(this, key), stringValue.value)
         IN  IF stringValue.threw THEN Caught(ls, FALSE)
             ELSE IF set.threw THEN Caught(set.ls, FALSE)
             ELSE Returned(set.ls, TRUE)

getItem(this, ls, key, defaultValue) ==
    IF ~this.supported THEN Returned(ls, defaultValue)
    ELSE LET item == lsGetItem(ls, getPrefixedKey(this, key))
             parsed == JSONparse(item.value.text)
         IN  IF item.threw THEN Caught(ls, defaultValue)
             ELSE IF item.value = JsNull THEN Returned(ls, defaultValue)
             ELSE IF parsed.threw THEN Caught(ls, defaultValue)
             ELSE Returned(ls, parsed.value)

removeItem(this, ls, key) ==
    IF ~this.supported THEN Returned(ls, FALSE)
    ELSE LET removed == lsRemoveItem(ls, getPrefixedKey(this, key))
         IN  IF removed.threw THEN Caught(removed.ls, FALSE)
             ELSE Returned(removed.ls, TRUE)

(* clear(false) gathers the keys that start with the prefix, then removes
   each of them *)
keysToRemove(this, ls) == {key \in DOMAIN ls.items : startsWith(key, this.prefix)}

RECURSIVE removeEach(_, _)
removeEach(ls, keys) ==
    IF keys = {} THEN [ls |-> ls, threw |-> FALSE]
    ELSE LET key == CHOOSE k \in keys : TRUE
             removed == lsRemoveItem(ls, key)
         IN  IF removed.threw THEN removed
             ELSE removeEach(removed.ls, keys \ {key})

clearEverything(this, ls, includeNonPrefixed) ==
    IF ~this.supported THEN Returned(ls, FALSE)
    ELSE LET cleared == lsClear(ls)
         IN  IF cleared.threw THEN Caught(cleared.ls, FALSE)
             ELSE Returned(cleared.ls, TRUE)

clear(this, ls, includeNonPrefixed) ==
    IF ~this.supported THEN Returned(ls, FALSE)
    ELSE LET cleared == IF includeNonPrefixed THEN lsClear(ls)
                        ELSE IF ls.mode = "denied"
                             THEN [ls |-> ls, threw |-> TRUE]
                        ELSE removeEach(ls, keysToRemove(this, ls))
         IN  IF cleared.threw THEN Caught(cleared.ls, FALSE)
             ELSE Returned(cleared.ls, TRUE)

hasItem(this, ls, key) ==
    IF ~this.supported THEN Returned(ls, FALSE)
    ELSE LET item == lsGetItem(ls, getPrefixedKey(this, key))
         IN  IF item.threw THEN Caught(ls, FALSE)
             ELSE Returned(ls, item.value # JsNull)

NoCall == [op |-> "none"]

(* The storage module while no one uses it: a StorageSystem built over an
   empty store that works *)
StorageIdle ==
    /\ localStorage = StorageSystem([items |-> << >>, mode |-> "ok"]).ls
    /\ storageSystem = StorageSystem([items |-> << >>, mode |-> "ok"]).this
    /\ call = NoCall
    /\ calls = 0

----------------------------------------------------------------------------
(* js/core/particle-system.js                                              *)
(*                                                                         *)
(* Times are whole milliseconds and a life is kept in thousandths: the     *)
(* 0.016 a particle loses per update is 16.  A particle is its life and    *)
(* maxLife; its position, velocity, rotation and opacity, which update     *)
(* writes and never reads to decide on the life, are left out.  id and age *)
(* are history: which Particle object it is, and how many updates it has   *)
(* been through.                                                           *)

lifePerUpdate == 16

(* option || fallback *)
OrElse(option, fallback) == IF option = 0 THEN fallback ELSE option

Particle(id, options) ==
    [id |-> id, life |-> OrElse(options.life, 1000),
     maxLife |-> OrElse(options.life, 1000), age |-> 0]

ParticleUpdateKeepingAtZero(particle, deltaTime) ==
    [particle |-> [particle EXCEPT !.life = @ - lifePerUpdate, !.age = @ + 1],
     alive |-> particle.life - lifePerUpdate >= 0]

(* Particle.update(deltaTime): the particle after it, and what it returns *)
ParticleUpdate(particle, deltaTime) ==
    [particle |-> [particle EXCEPT !.life = @ - lifePerUpdate, !.age = @ + 1],
     alive |-> particle.life - lifePerUpdate > 0]

ParticleEmitter(options) ==
    [particles |-> <<>>, isActive |-> TRUE,
     emitRate |-> OrElse(options.emitRate, 10),
     emitCount |-> options.emitCount, emittedCount |-> 0, emitTimer |-> 0,
     particleOptions |-> options.particleOptions,
     burstMode |-> options.burstMode,
     burstCount |-> OrElse(options.burstCount, 50),
     burstInterval |-> OrElse(options.burstInterval, 1000), burstTimer |-> 0,
     nextId |-> 1, removed |-> {}]

emitParticle(this) ==
    [this EXCEPT !.particles = Append(@, Particle(this.nextId, this.particleOptions)),
                 !.nextId = @ + 1]

RECURSIVE emitParticles(_, _)
emitParticles(this, count) ==
    IF count = 0 THEN this ELSE emitParticles(emitParticle(this), count - 1)

emitBurst(this) ==
    [emitParticles(this, this.burstCount) EXCEPT
        !.emittedCount = @ + this.burstCount]

(* The loop over the particles, from the last to the first: i is the index
   to visit; a particle whose update returns false is spliced out *)
RECURSIVE updateParticles(_, _, _)
updateParticles(this, i, deltaTime) ==
    IF i < 1 THEN this
    ELSE LET updated == ParticleUpdate(this.particles[i], deltaTime)
         IN  IF updated.alive
             THEN updateParticles(
                      [this EXCEPT !.particles[i] = updated.particle],
                      i - 1, deltaTime)
             ELSE updateParticles(
                      [this EXCEPT !.particles = RemoveAt(@, i),
                                   !.removed = @ \cup {updated.particle.id}],
                      i - 1, deltaTime)

(* The while loop of the steady emission *)
RECURSIVE emitWhileDue(_)
emitWhileDue(this) ==
    LET emitInterval == 1000 \div this.emitRate
    IN  IF /\ this.emitTimer >= emitInterval
           /\ (this.emitCount = 0 \/ this.emittedCount < this.emitCount)
        THEN emitWhileDue([emitParticle(this) EXCEPT
                              !.emitTimer = @ - emitInterval,
                              !.emittedCount = @ + 1])
        ELSE this

(* ParticleEmitter.update(deltaTime) *)
ParticleEmitterUpdate(this, deltaTime) ==
    LET kept == updateParticles([this EXCEPT !.removed = {}],
                                Len(this.particles), deltaTime)
    IN  IF ~kept.isActive THEN kept
        ELSE IF kept.burstMode
        THEN LET timed == [kept EXCEPT !.burstTimer = @ + deltaTime]
             IN  IF timed.burstTimer >= timed.burstInterval
                 THEN emitBurst([timed EXCEPT !.burstTimer = 0])
                 ELSE timed
        ELSE emitWhileDue([kept EXCEPT !.emitTimer = @ + deltaTime])

emitterStart(this) == [this EXCEPT !.isActive = TRUE]

emitterStop(this) == [this EXCEPT !.isActive = FALSE]

emitterClear(this) == [this EXCEPT !.particles = <<>>]

IdleEmitterOptions ==
    [emitRate |-> 0, emitCount |-> 0, particleOptions |-> [life |-> 0],
     burstMode |-> FALSE, burstCount |-> 0, burstInterval |-> 0]

(* The particle module while no one uses it: an emitter just built *)
ParticlesIdle ==
    /\ emitter = ParticleEmitter(IdleEmitterOptions)
    /\ retired = {}
    /\ emitterSteps = 0

----------------------------------------------------------------------------
(* TimeController: game time and timers.  Times are in milliseconds.  The
   Map of timers is the sequence of its entries in insertion order, which
   is the order of their ids.  Of a timer, setAt is the scaled time that had
   passed when it was set; of the controller, scaledTime is the sum of
   deltaTime * timeScale over the update() calls begun so far and
   scaledDelta the last term of that sum, fires counts the calls of each
   timer's callback, pass lists the callbacks called by the latest update(),
   op names the latest method called and before holds the timers it found,
   issued lists the ids that setTimer has returned and cleared holds the ids
   of the timers that clearTimer or clearAllTimers took out of the Map;
   thrown is set while an exception is on its way out. *)

(* What the callback of a timer does when it is called *)
TimerCallbacks == {"none", "throw", "setTimer", "clearTimer", "clearAllTimers"}

(* The delay of the timer that a "setTimer" callback sets *)
ChainedDelay == 100

TimeController ==
    [gameTime |-> 0, timeScale |-> 1, paused |-> FALSE, timers |-> <<>>,
     nextTimerId |-> 1,
     scaledTime |-> 0, scaledDelta |-> 0, fires |-> <<>>, pass |-> <<>>,
     before |-> <<>>, op |-> "new", issued |-> <<>>, cleared |-> {},
     thrown |-> FALSE]

setTimeScale(this, scale) ==
    [this EXCEPT !.timeScale = IF scale > 0 THEN scale ELSE 0]

(* pause() and resume() of the TimeController *)
timePause(this) == [this EXCEPT !.paused = TRUE]

timeResume(this) == [this EXCEPT !.paused = FALSE]

setTimer(this, callback, delay, repeat) ==
    [this EXCEPT
        !.timers = Append(@, [id |-> this.nextTimerId, callback |-> callback,
                              delay |-> delay, repeat |-> repeat,
                              elapsed |-> 0, active |-> TRUE,
                              setAt |-> this.scaledTime]),
        !.fires = Append(@, [repeat |-> repeat, count |-> 0]),
        !.issued = Append(@, this.nextTimerId),
        !.nextTimerId = @ + 1]

TimerIds(timers) == {timers[i].id : i \in 1..Len(timers)}

(* The index of timer timerId in the Map *)
TimerIndex(timers, timerId) ==
    CHOOSE i \in 1..Len(timers) : timers[i].id = timerId

(* this.timers.delete(timerId) *)
timersDelete(this, timerId) ==
    IF timerId \in TimerIds(this.timers)
    THEN [this EXCEPT !.timers = RemoveAt(@, TimerIndex(@, timerId))]
    ELSE this

clearTimer(this, timerId) ==
    [timersDelete(this, timerId) EXCEPT
        !.cleared = @ \cup ({timerId} \cap TimerIds(this.timers))]

clearAllTimers(this) ==
    [this EXCEPT !.timers = <<>>,
                 !.cleared = @ \cup TimerIds(this.timers)]

(* timer.callback() inside the try block of updateTimers; a "clearTimer"
   callback clears the timer set next after its own *)
timerCallback(this, timer) ==
    CASE timer.callback = "setTimer" -> setTimer(this, "none", ChainedDelay, FALSE)
      [] timer.callback = "clearTimer" -> clearTimer(this, timer.id + 1)
      [] timer.callback = "clearAllTimers" -> clearAllTimers(this)
      [] timer.callback = "throw" -> [this EXCEPT !.thrown = TRUE]
      [] OTHER -> this

(* The catch block of updateTimers: the exception is logged and ends there *)
consoleError(this) == [this EXCEPT !.thrown = FALSE]

(* A repeating timer that carries the time beyond its delay into its next
   round *)
fireTimerKeepingRemainder(this, timer) ==
    LET logged == [this EXCEPT
                      !.fires[timer.id].count = @ + 1,
                      !.pass = Append(@, [id |-> timer.id,
                                          repeat |-> timer.repeat,
                                          delay |-> timer.delay,
                                          callback |-> timer.callback,
                                          elapsed |-> timer.elapsed,
                                          wasCleared |-> timer.id \in this.cleared,
                                          sinceSet |-> this.scaledTime - timer.setAt])]
        called == consoleError(timerCallback(logged, timer))
    IN  IF timer.repeat
        THEN IF timer.id \in TimerIds(called.timers)
             THEN [called EXCEPT
                      !.timers[TimerIndex(called.timers, timer.id)].elapsed =
                          @ - timer.delay]
             ELSE called
        ELSE timersDelete(called, timer.id)

(* The body of the loop without its try and catch: an exception thrown by
   the callback leaves it at once *)
fireTimerUncaught(this, timer) ==
    LET logged == [this EXCEPT
                      !.fires[timer.id].count = @ + 1,
                      !.pass = Append(@, [id |-> timer.id,
                                          repeat |-> timer.repeat,
                                          delay |-> timer.delay,
                                          callback |-> timer.callback,
                                          elapsed |-> timer.elapsed,
                                          wasCleared |-> timer.id \in this.cleared,
                                          sinceSet |-> this.scaledTime - timer.setAt])]
        called == timerCallback(logged, timer)
    IN  IF called.thrown THEN called
        ELSE IF timer.repeat
        THEN IF timer.id \in TimerIds(called.timers)
             THEN [called EXCEPT
                      !.timers[TimerIndex(called.timers, timer.id)].elapsed = 0]
             ELSE called
        ELSE timersDelete(called, timer.id)

(* What updateTimers does with a timer whose elapsed has reached its delay *)
fireTimer(this, timer) ==
    LET logged == [this EXCEPT
                      !.fires[timer.id].count = @ + 1,
                      !.pass = Append(@, [id |-> timer.id,
                                          repeat |-> timer.repeat,
                                          delay |-> timer.delay,
                                          callback |-> timer.callback,
                                          elapsed |-> timer.elapsed,
                                          wasCleared |-> timer.id \in this.cleared,
                                          sinceSet |-> this.scaledTime - timer.setAt])]
        called == consoleError(timerCallback(logged, timer))
    IN  IF timer.repeat
        THEN IF timer.id \in TimerIds(called.timers)
             THEN [called EXCEPT
                      !.timers[TimerIndex(called.timers, timer.id)].elapsed = 0]
             ELSE called
        ELSE timersDelete(called, timer.id)

(* The for-of loop of updateTimers over the Map, after the entry lastId: the
   iterator of a Map goes on to the entries that follow in insertion order,
   those added during the loop included, and skips the deleted ones *)
RECURSIVE visitTimers(_, _, _)
visitTimers(this, lastId, scaledDelta) ==
    LET later == {i \in 1..Len(this.timers) : this.timers[i].id > lastId}
    IN  IF this.thrown \/ later = {} THEN this
        ELSE LET i == CHOOSE j \in later : \A k \in later : j <= k
                 timer == this.timers[i]
                 timed == [timer EXCEPT !.elapsed = @ + scaledDelta]
                 added == [this EXCEPT !.timers[i] = timed]
             IN  IF ~timer.active THEN visitTimers(this, timer.id, scaledDelta)
                 ELSE IF timed.elapsed >= timed.delay
                 THEN visitTimers(fireTimer(added, timed), timer.id, scaledDelta)
                 ELSE visitTimers(added, timer.id, scaledDelta)

(* updateTimers that loops over a copy of the Map made before the loop:
   every timer that was registered then is visited, cleared or not *)
RECURSIVE visitCopiedTimers(_, _, _, _)
visitCopiedTimers(this, copy, i, scaledDelta) ==
    IF this.thrown \/ i > Len(copy) THEN this
    ELSE LET timed == [copy[i] EXCEPT !.elapsed = @ + scaledDelta]
             added == IF timed.id \in TimerIds(this.timers)
                      THEN [this EXCEPT
                               !.timers[TimerIndex(this.timers, timed.id)] = timed]
                      ELSE this
         IN  IF timed.elapsed >= timed.delay
             THEN visitCopiedTimers(fireTimer(added, timed), copy, i + 1, scaledDelta)
             ELSE visitCopiedTimers(added, copy, i + 1, scaledDelta)

updateTimersOverCopy(this, deltaTime) ==
    visitCopiedTimers(this, this.timers, 1, deltaTime * this.timeScale)

updateTimers(this, deltaTime) ==
    visitTimers(this, 0, deltaTime * this.timeScale)

(* update(deltaTime) of the TimeController *)
timeUpdate(this, deltaTime) ==
    updateTimers(
        [this EXCEPT
            !.gameTime = IF ~this.paused THEN @ + deltaTime * this.timeScale ELSE @,
            !.scaledTime = @ + deltaTime * this.timeScale,
            !.scaledDelta = deltaTime * this.timeScale,
            !.pass = <<>>,
            !.thrown = FALSE],
        deltaTime)

(* The time module while no one uses it: a controller just built *)
TimersIdle ==
    /\ timeController = TimeController
    /\ timerSteps = 0

UtilsIdle == StorageIdle /\ ParticlesIdle /\ TimersIdle

----------------------------------------------------------------------------
(* The loop's state after construction and the operations on it *)

NoTick ==
    [ran |-> FALSE, elapsed |-> 0, state |-> INITIALIZING,
     phase |-> "none", calls |-> <<>>, thrown |-> FALSE]

InitLoop ==
    /\ gameLoop = [state |-> INITIALIZING, isRunning |-> FALSE, lastTime |-> 0,
                   deltaTime |-> 0, animationId |-> null]
    /\ rafQueue = {}
    /\ nextRafId = 1
    /\ clock = 0
    /\ lastFrameTs = 0
    /\ tick = NoTick
    /\ pausePhase = "none"
    /\ pausedTicks = FALSE

Here == World(gameLoop, rafQueue, nextRafId, pausePhase, pausedTicks)

Commit(w) ==
    /\ gameLoop' = LoopOf(w)
    /\ rafQueue' = w.raf
    /\ nextRafId' = w.nextRafId
    /\ pausePhase' = w.phase
    /\ pausedTicks' = w.pausedTicks

Start ==
    /\ nextRafId <= MaxRafId
    /\ Commit(start(Here, clock))
    /\ UNCHANGED <<clock, lastFrameTs, tick, raceVars>>
    /\ UNCHANGED utilVars

Stop ==
    /\ Commit(stop(Here))
    /\ UNCHANGED <<clock, lastFrameTs, tick, raceVars>>
    /\ UNCHANGED utilVars

SetState ==
    /\ nextRafId <= MaxRafId
    /\ \E s \in SetStateInputs : Commit(setState(Here, s, clock))
    /\ UNCHANGED <<clock, lastFrameTs, tick, raceVars>>
    /\ UNCHANGED utilVars

Pause ==
    /\ Commit(pause(Here, clock))
    /\ UNCHANGED <<clock, lastFrameTs, tick, raceVars>>
    /\ UNCHANGED utilVars

Resume ==
    /\ nextRafId <= MaxRafId
    /\ Commit(resume(Here, clock))
    /\ UNCHANGED <<clock, lastFrameTs, tick, raceVars>>
    /\ UNCHANGED utilVars

TogglePause ==
    /\ nextRafId <= MaxRafId
    /\ Commit(togglePause(Here, clock))
    /\ UNCHANGED <<clock, lastFrameTs, tick, raceVars>>
    /\ UNCHANGED utilVars

(* The scheduler runs one requested frame callback. *)
Frame ==
    /\ nextRafId + 1 <= MaxRafId
    /\ \E id \in rafQueue, lag \in FrameLags, ub \in CallbackBehaviours,
          rb \in CallbackBehaviours :
         LET timestamp == clock - lag
             w0 == [Here EXCEPT !.raf = @ \ {id}]
             w  == loop(w0, timestamp, ub, rb, clock)
         IN  /\ timestamp >= lastFrameTs
             /\ Commit(w)
             /\ lastFrameTs' = timestamp
             /\ tick' = IF gameLoop.isRunning
                        THEN [ran |-> TRUE,
                              elapsed |-> timestamp - gameLoop.lastTime,
                              state |-> gameLoop.state, phase |-> pausePhase,
                              calls |-> w.calls, thrown |-> w.thrown]
                        ELSE tick
    /\ UNCHANGED <<clock, raceVars>>
    /\ UNCHANGED utilVars

AdvanceClock ==
    /\ \E d \in FrameGaps : clock + d <= MaxClock /\ clock' = clock + d
    /\ UNCHANGED <<gameLoop, rafQueue, nextRafId, lastFrameTs, tick,
                   pausePhase, pausedTicks, raceVars>>
    /\ UNCHANGED utilVars

NextLoop ==
    \/ Start
    \/ Stop
    \/ SetState
    \/ Pause
    \/ Resume
    \/ TogglePause
    \/ Frame
    \/ AdvanceClock

(* The loop under any sequence of calls that set or switch its state, with
   setState handed the members of GameState and a value that is none. *)
AnyStateInputs == GameState \cup {"victory"}

SetAnyState ==
    /\ nextRafId <= MaxRafId
    /\ \E s \in AnyStateInputs : Commit(setState(Here, s, clock))
    /\ UNCHANGED <<clock, lastFrameTs, tick, raceVars>>
    /\ UNCHANGED utilVars

NextState ==
    \/ SetAnyState
    \/ Pause
    \/ Resume
    \/ TogglePause
    \/ Stop
    \/ AdvanceClock

(* The loop with a record of what each call on it did: tick holds the
   method called (op), the state and isRunning it found, the callbacks it
   invoked, the onStateChange calls it made and the callbacks it invoked
   while isRunning was false.  The clock stands still. *)
Did(op, w, inner) ==
    /\ Commit(w)
    /\ tick' = [ran |-> op = "loop" /\ gameLoop.isRunning, op |-> op,
                inner |-> inner, state |-> gameLoop.state,
                isRunning |-> gameLoop.isRunning, raf |-> rafQueue,
                calls |-> w.calls, thrown |-> w.thrown,
                stateChanges |-> w.stateChanges,
                whileStopped |-> w.whileStopped]
    /\ UNCHANGED <<clock, raceVars>>
    /\ UNCHANGED utilVars

DidStart ==
    /\ nextRafId <= MaxRafId
    /\ Did("start", start(Here, clock), <<>>)
    /\ UNCHANGED lastFrameTs

DidStop ==
    /\ Did("stop", stop(Here), <<>>)
    /\ UNCHANGED lastFrameTs

DidSetState ==
    /\ nextRafId <= MaxRafId
    /\ \E s \in SetStateInputs :
           Did("setState", setState(Here, s, clock), <<s>>)
    /\ UNCHANGED lastFrameTs

DidPause ==
    /\ Did("pause", pause(Here, clock), <<>>)
    /\ UNCHANGED lastFrameTs

DidResume ==
    /\ nextRafId <= MaxRafId
    /\ Did("resume", resume(Here, clock), <<>>)
    /\ UNCHANGED lastFrameTs

DidTogglePause ==
    /\ nextRafId <= MaxRafId
    /\ Did("togglePause", togglePause(Here, clock), <<>>)
    /\ UNCHANGED lastFrameTs

(* togglePause() called twice in a row *)
DidTogglePauseTwice ==
    /\ nextRafId <= MaxRafId
    /\ Did("togglePause twice",
           togglePause(togglePause(Here, clock), clock), <<>>)
    /\ UNCHANGED lastFrameTs

DidFrame ==
    /\ nextRafId + 1 <= MaxRafId
    /\ \E id \in rafQueue, ub \in CallbackBehaviours,
          rb \in CallbackBehaviours :
           Did("loop", loop([Here EXCEPT !.raf = @ \ {id}], clock, ub, rb, clock),
               <<ub, rb, id>>)
    /\ lastFrameTs' = clock

NextCalls ==
    \/ DidStart
    \/ DidStop
    \/ DidSetState
    \/ DidPause
    \/ DidResume
    \/ DidTogglePause
    \/ DidTogglePauseTwice
    \/ DidFrame

(* The racing game after construction *)
MaxUpdates == 2
MaxEvents == 2
MaxNow == 3000
MaxCalls == 3
MaxEmitterSteps == 5
MaxTimers == 2
MaxTimerSteps == 4

(* Deltas handed to update(), steps of Date.now() between two handlers *)
RaceDeltas == {16, 100}
NowSteps == {1500}

NewGame ==
    [gameRunning |-> FALSE, gamePaused |-> FALSE, countDownActive |-> FALSE,
     score |-> 0, lives |-> 3, speed |-> 0, trackProgress |-> 0,
     currentLap |-> 0,
     playerEffects |->
         [shield      |-> [active |-> FALSE, endTime |-> 0],
          doubleScore |-> [active |-> FALSE, endTime |-> 0],
          magnet      |-> [active |-> FALSE, endTime |-> 0, range |-> 200]],
     playerCar |->
         [x |-> CanvasWidth \div 2 - 25, y |-> CanvasHeight - 120,
          width |-> 50, height |-> 100, track |-> 1, speed |-> 0,
          maxSpeed |-> 150, acceleration |-> 2, deceleration |-> 1,
          isInvulnerable |-> FALSE],
     enemyCars |-> <<>>, powerUps |-> <<>>,
     keys |-> [ArrowUp |-> FALSE, ArrowDown |-> FALSE, ArrowLeft |-> FALSE,
               ArrowRight |-> FALSE],
     gameOverScreen |-> "none",
     timeouts |-> <<>>, nextId |-> 1, gone |-> {}, endGameCalls |-> 0,
     events |-> 0, drawn |-> FALSE, lastLaneChangeTime |-> 0]

NoUpdate == [ran |-> FALSE, skipped |-> FALSE]

InitGame ==
    /\ game = NewGame
    /\ dateNow = 0
    /\ updates = 0
    /\ last = NoUpdate

InitIdle == InitLoop /\ InitGame /\ UtilsIdle

SpecLoop == InitIdle /\ [][NextLoop]_vars

SpecState == InitIdle /\ [][NextState]_vars

SpecCalls == InitIdle /\ [][NextCalls]_vars

----------------------------------------------------------------------------
(* The racing game in progress and its handlers *)

(* Entities of a game in progress: an enemy car generated in a lane with a
   speed and moved by a number of ticks since, a power-up generated in a
   lane and fallen for a number of ticks.  In the player's lane 1 the cars
   meet the player at the next tick (7 px/tick after 68 ticks) or the one
   after (3 px/tick after 159 ticks); in lanes 0 and 2 they leave the canvas
   at the next tick or the one after.  The power-ups reach the player at the next
   tick (96 ticks old) or the one after (95). *)
StartEnemies == {<<1, 7, 68>>, <<1, 3, 159>>, <<0, 7, 100>>, <<2, 3, 233>>,
                 <<0, 7, 99>>}
StartPowerUps == {<<1, "SHIELD", 96>>, <<1, "SHIELD", 95>>,
                  <<1, "DOUBLE_SCORE", 96>>, <<1, "MAGNET", 96>>}
StartLives == {1, 3}

EnemyAt(e, id) ==
    [x |-> LaneX(e[1], 50), y |-> -100 + e[2] * e[3], width |-> 50,
     height |-> 100, track |-> e[1], speed |-> e[2],
     id |-> id, y0 |-> -100 + e[2] * e[3], n |-> 0, sumDt |-> 0]

PowerUpAt(p, id) ==
    [x |-> LaneX(p[1], 30), y |-> -30 + 5 * p[3], size |-> 30,
     track |-> p[1], type |-> p[2], nan |-> FALSE, id |-> id]

(* The arrays of up to max distinct members of S *)
Scenes(S, max) ==
    UNION {{s \in [1..k -> S] : \A i, j \in 1..k : i # j => s[i] # s[j]} : k \in 0..max}

(* Up to two enemy cars alone, up to two power-ups alone, and one enemy car
   with one power-up *)
StartScenes ==
    (Scenes(StartEnemies, 2) \X {<<>>})
    \cup ({<<>>} \X Scenes(StartPowerUps, 2))
    \cup (Scenes(StartEnemies, 1) \X Scenes(StartPowerUps, 1))

InitRace ==
    /\ InitLoop
    /\ UtilsIdle
    /\ dateNow = 0
    /\ updates = 0
    /\ last = NoUpdate
    /\ \E scene \in StartScenes, l \in StartLives :
         LET es == scene[1]
             ps == scene[2]
         IN  game = [NewGame EXCEPT
                        !.gameRunning = TRUE,
                        !.lives = l,
                        !.enemyCars = [i \in 1..Len(es) |-> EnemyAt(es[i], i)],
                        !.powerUps = [i \in 1..Len(ps) |-> PowerUpAt(ps[i], Len(es) + i)],
                        !.nextId = Len(es) + Len(ps) + 1]

(* Draws of Math.random() explored when an entity is generated: the lane,
   the speed of an enemy car and the type of a power-up.  An entity generated above the canvas stays
   clear of the player for the ticks explored, whatever its lane. *)
SpawnTracks == {1}
SpawnSpeeds == {7}
SpawnTypes == {"MAGNET"}

EnemySpawns ==
    {<<>>} \cup
    (IF Len(game.enemyCars) < MaxEnemies /\ game.nextId < MaxEntityId
     THEN SpawnTracks \X SpawnSpeeds ELSE {})

PowerUpSpawns ==
    {<<>>} \cup
    (IF Len(game.powerUps) < MaxPowerUps /\ game.nextId < MaxEntityId
     THEN SpawnTracks \X SpawnTypes ELSE {})

(* The tick callback: update(deltaTime) *)
Update ==
    /\ updates < MaxUpdates
    /\ \E deltaTime \in RaceDeltas, spawnE \in EnemySpawns, spawnP \in PowerUpSpawns :
         /\ game' = update(game, deltaTime, spawnE, spawnP, dateNow)
         /\ last' = IF ~game.gameRunning \/ game.gamePaused \/ game.countDownActive
                    THEN [ran |-> FALSE, skipped |-> TRUE, before |-> game,
                          after |-> update(game, deltaTime, spawnE, spawnP, dateNow)]
                    ELSE [ran |-> TRUE, skipped |-> FALSE, now |-> dateNow,
                          afterPlayer |-> AfterPlayer(game),
                          afterEnemies |-> AfterEnemies(game, deltaTime, spawnE),
                          afterPowerUps |-> AfterPowerUps(game, deltaTime, spawnE, spawnP),
                          afterCollisions |->
                              AfterCollisions(game, deltaTime, spawnE, spawnP, dateNow),
                          after |-> update(game, deltaTime, spawnE, spawnP, dateNow)]
    /\ updates' = IF ~game.gameRunning \/ game.gamePaused \/ game.countDownActive
                   THEN updates ELSE updates + 1
    /\ UNCHANGED <<dateNow, loopVars>>
    /\ UNCHANGED utilVars

(* handleKeyDown / handleKeyUp for the steering keys, one key held at a time *)
SteerKeyDown ==
    /\ game.events < MaxEvents
    /\ \A k \in DOMAIN game.keys : ~game.keys[k]
    /\ \E k \in {"ArrowLeft", "ArrowRight"} :
         game' = [game EXCEPT !.keys[k] = TRUE, !.events = @ + 1]
    /\ UNCHANGED <<dateNow, updates, last, loopVars>>
    /\ UNCHANGED utilVars

KeyUp ==
    /\ \E k \in DOMAIN game.keys :
         /\ game.keys[k]
         /\ game' = [game EXCEPT !.keys[k] = FALSE]
    /\ UNCHANGED <<dateNow, updates, last, loopVars>>
    /\ UNCHANGED utilVars

(* handlePauseButton *)
PauseButton ==
    /\ game.events < MaxEvents
    /\ game.gameRunning /\ ~game.countDownActive
    /\ game' = audioSystemPlay([game EXCEPT !.gamePaused = ~@, !.events = @ + 1])
    /\ IF game.gamePaused
       THEN /\ nextRafId <= MaxRafId
            /\ Commit(start(Here, clock))
       ELSE UNCHANGED <<gameLoop, rafQueue, nextRafId, pausePhase, pausedTicks>>
    /\ UNCHANGED <<dateNow, updates, last, clock, lastFrameTs, tick>>
    /\ UNCHANGED utilVars

(* handleWindowBlur *)
WindowBlur ==
    /\ game.events < MaxEvents
    /\ game.gameRunning /\ ~game.gamePaused
    /\ game' = [game EXCEPT !.gamePaused = TRUE, !.events = @ + 1]
    /\ UNCHANGED <<dateNow, updates, last, loopVars>>
    /\ UNCHANGED utilVars

(* A timeout set by applyPowerUpEffect comes due and its callback runs. *)
Timeout ==
    /\ \E i \in 1..Len(game.timeouts) :
         /\ game.timeouts[i].due <= dateNow
         /\ game' = removePowerUpEffect(
                        [game EXCEPT !.timeouts = RemoveAt(@, i)],
                        game.timeouts[i].powerUpType)
    /\ UNCHANGED <<dateNow, updates, last, loopVars>>
    /\ UNCHANGED utilVars

AdvanceNow ==
    /\ \E d \in NowSteps : dateNow + d <= MaxNow /\ dateNow' = dateNow + d
    /\ UNCHANGED <<game, updates, last, loopVars>>
    /\ UNCHANGED utilVars

NextRace ==
    \/ Update
    \/ SteerKeyDown
    \/ KeyUp
    \/ PauseButton
    \/ WindowBlur
    \/ Timeout
    \/ AdvanceNow

SpecRace == InitRace /\ [][NextRace]_vars

----------------------------------------------------------------------------
(* The racing game with all its handlers, touch included *)

(* A game in progress with two enemy cars and a shield that the first tick
   brings onto the player together, or with the shield alone *)
CollisionScenes ==
    {<< <<(<<1, 7, 68>>), (<<1, 3, 160>>)>>, <<(<<1, "SHIELD", 96>>)>> >>,
     << <<>>, <<(<<1, "SHIELD", 96>>)>> >>}

InitCollide ==
    /\ InitLoop
    /\ UtilsIdle
    /\ dateNow = 0
    /\ updates = 0
    /\ last = NoUpdate
    /\ \E scene \in CollisionScenes, l \in StartLives :
         LET es == scene[1]
             ps == scene[2]
         IN  game = [NewGame EXCEPT
                        !.gameRunning = TRUE,
                        !.lives = l,
                        !.enemyCars = [i \in 1..Len(es) |-> EnemyAt(es[i], i)],
                        !.powerUps = [i \in 1..Len(ps) |-> PowerUpAt(ps[i], Len(es) + i)],
                        !.nextId = Len(es) + Len(ps) + 1]

SpecCollide == InitCollide /\ [][NextRace]_vars

(* Touch movements explored: across and along the lanes, beyond and within
   the thresholds of 30 and 20 px *)
TouchDeltaX == {-50, 25, 50}
TouchDeltaY == {-25, 0, 25}

TouchMove ==
    /\ game.events < MaxEvents
    /\ \E deltaX \in TouchDeltaX, deltaY \in TouchDeltaY :
         game' = [handleTouchMove(game, deltaX, deltaY, dateNow) EXCEPT
                     !.events = @ + 1]
    /\ UNCHANGED <<dateNow, updates, last, loopVars>>
    /\ UNCHANGED utilVars

(* A game in progress with an enemy car two ticks above the player and a
   shield one tick above *)
InitHandlers ==
    /\ InitLoop
    /\ UtilsIdle
    /\ dateNow = 0
    /\ updates = 0
    /\ last = NoUpdate
    /\ \E l \in StartLives :
         game = [NewGame EXCEPT
                    !.gameRunning = TRUE,
                    !.lives = l,
                    !.enemyCars = <<EnemyAt(<<1, 3, 159>>, 1)>>,
                    !.powerUps = <<PowerUpAt(<<1, "SHIELD", 96>>, 2)>>,
                    !.nextId = 3]

NextHandlers ==
    \/ Update
    \/ SteerKeyDown
    \/ KeyUp
    \/ TouchMove
    \/ PauseButton
    \/ WindowBlur
    \/ Timeout
    \/ AdvanceNow

SpecHandlers == InitHandlers /\ [][NextHandlers]_vars

---------------------------------------------------------------------------------
(* The player's car under the keyboard and the touch screen *)

(* The car at rest or one coasting tick below its top speed, the lap just
   begun or one tick short of its end, and the road empty or with an enemy
   car about to leave the canvas; no further entity is generated in the
   ticks explored *)
PlayerSpeeds == {0, 149}
PlayerProgress == {0, 299999}
PlayerEnemies == {<<>>, <<(<<0, 7, 100>>)>>}

InitPlayer ==
    /\ InitLoop
    /\ UtilsIdle
    /\ dateNow = 0
    /\ updates = 0
    /\ last = NoUpdate
    /\ \E s \in PlayerSpeeds, p \in PlayerProgress, es \in PlayerEnemies :
         game = [NewGame EXCEPT
                    !.gameRunning = TRUE,
                    !.playerCar.speed = s,
                    !.speed = s,
                    !.trackProgress = p,
                    !.enemyCars = [i \in 1..Len(es) |-> EnemyAt(es[i], i)],
                    !.nextId = MaxEntityId]

(* handleKeyDown(e) for any of the four arrow keys, one key held at a time *)
KeyDown ==
    /\ game.events < MaxEvents
    /\ \A k \in DOMAIN game.keys : ~game.keys[k]
    /\ \E k \in DOMAIN game.keys :
         game' = [game EXCEPT !.keys[k] = TRUE, !.events = @ + 1]
    /\ UNCHANGED <<dateNow, updates, last, loopVars>>
    /\ UNCHANGED utilVars

NextPlayer ==
    \/ Update
    \/ KeyDown
    \/ KeyUp
    \/ TouchMove
    \/ AdvanceNow

SpecPlayer == InitPlayer /\ [][NextPlayer]_vars

-----------------------------------------------------------------------
(* The racing game driven by its loop: onUpdate is update(), onRender is
   render() *)

GameScenes == {<<<<>>, <<>>>>, <<<<(<<1, 3, 159>>)>>, <<>>>>,
               <<<<>>, <<(<<1, "SHIELD", 96>>)>>>>}

InitDriven ==
    /\ InitLoop
    /\ UtilsIdle
    /\ dateNow = 0
    /\ updates = 0
    /\ last = NoUpdate
    /\ \E scene \in GameScenes :
         LET es == scene[1]
             ps == scene[2]
         IN  game = [NewGame EXCEPT
                        !.gameRunning = TRUE,
                        !.enemyCars = [i \in 1..Len(es) |-> EnemyAt(es[i], i)],
                        !.powerUps = [i \in 1..Len(ps) |-> PowerUpAt(ps[i], Len(es) + i)],
                        !.nextId = Len(es) + Len(ps) + 1]

(* The scheduler runs one requested frame callback of the game's loop. *)
GameFrame ==
    /\ nextRafId <= MaxRafId
    /\ updates < MaxUpdates
    /\ \E id \in rafQueue, spawnE \in EnemySpawns, spawnP \in PowerUpSpawns :
         LET timestamp == clock
             w0 == [Here EXCEPT !.raf = @ \ {id}]
             w  == loop(w0, timestamp, "none", "none", clock)
             updated  == \E i \in 1..Len(w.calls) : w.calls[i].cb = "onUpdate"
             rendered == \E i \in 1..Len(w.calls) : w.calls[i].cb = "onRender"
             g1 == IF updated
                   THEN update(game, w.deltaTime, spawnE, spawnP, dateNow)
                   ELSE game
             g2 == IF rendered THEN render(g1) ELSE g1
         IN  /\ timestamp >= lastFrameTs
             /\ Commit(w)
             /\ lastFrameTs' = timestamp
             /\ game' = g2
             /\ updates' = IF g1 # game THEN updates + 1 ELSE updates
             /\ tick' = IF gameLoop.isRunning
                        THEN [ran |-> TRUE,
                              elapsed |-> timestamp - gameLoop.lastTime,
                              state |-> gameLoop.state, phase |-> pausePhase,
                              calls |-> w.calls, thrown |-> w.thrown,
                              before |-> game, after |-> g2]
                        ELSE tick
    /\ UNCHANGED <<clock, dateNow, last>>
    /\ UNCHANGED utilVars

(* The game puts its loop in the PLAYING state. *)
SetPlaying ==
    /\ nextRafId <= MaxRafId
    /\ Commit(setState(Here, PLAYING, clock))
    /\ UNCHANGED <<clock, lastFrameTs, tick, raceVars>>
    /\ UNCHANGED utilVars

NextDriven ==
    \/ GameFrame
    \/ SetPlaying
    \/ PauseButton
    \/ WindowBlur
    \/ AdvanceClock

SpecDriven == InitDriven /\ [][NextDriven]_vars

----------------------------------------------------------------------------
(* The StorageSystem in use: the page calls its methods, other scripts of
   the page write to localStorage, the browser changes how it serves it *)

StorageKeys == {"settings", "stats"}
StoredValues == {JsNumber("5"), JsUndefined, JsCircular}
DefaultValues == {JsString("fallback")}

(* What localStorage holds before the StorageSystem is built, and what
   other scripts write into it afterwards *)
StartItems ==
    {<< >>,
     [k \in {"gameverse_settings", "volume"} |->
         IF k = "volume" THEN "7" ELSE "5"],
     [k \in {"gameverse_settings", "volume"} |->
         IF k = "volume" THEN "7" ELSE "{5"]}
RawWrites == {<<"volume", "8">>, <<"gameverse_stats", "{5">>}

InitStorage ==
    /\ InitLoop
    /\ InitGame
    /\ \E items \in StartItems, mode \in StorageModes :
           LET built == StorageSystem([items |-> items, mode |-> mode])
           IN  /\ localStorage = built.ls
               /\ storageSystem = built.this
    /\ call = NoCall
    /\ calls = 0
    /\ ParticlesIdle
    /\ TimersIdle

Called(op, key, argument, outcome) ==
    /\ calls' = calls + 1
    /\ localStorage' = outcome.ls
    /\ call' = [op |-> op, key |-> key, argument |-> argument,
                before |-> localStorage, after |-> outcome.ls,
                returned |-> outcome.value,
                threw |-> outcome.threw, caught |-> outcome.caught]
    /\ UNCHANGED <<storageSystem, loopVars, raceVars, particleVars, timerVars>>

SetItem ==
    /\ calls < MaxCalls
    /\ \E key \in StorageKeys, value \in StoredValues :
           Called("setItem", key, value,
                  setItem(storageSystem, localStorage, key, value))

GetItem ==
    /\ calls < MaxCalls
    /\ \E key \in StorageKeys, defaultValue \in DefaultValues :
           Called("getItem", key, defaultValue,
                  getItem(storageSystem, localStorage, key, defaultValue))

RemoveItem ==
    /\ calls < MaxCalls
    /\ \E key \in StorageKeys :
           Called("removeItem", key, JsUndefined,
                  removeItem(storageSystem, localStorage, key))

Clear ==
    /\ calls < MaxCalls
    /\ \E includeNonPrefixed \in BOOLEAN :
           Called("clear", "", includeNonPrefixed,
                  clear(storageSystem, localStorage, includeNonPrefixed))

HasItem ==
    /\ calls < MaxCalls
    /\ \E key \in StorageKeys :
           Called("hasItem", key, JsUndefined,
                  hasItem(storageSystem, localStorage, key))

OtherScript ==
    /\ calls < MaxCalls
    /\ \E w \in RawWrites :
           LET set == lsSetItem(localStorage, w[1], JsString(w[2]))
           IN  ~set.threw /\ localStorage' = set.ls
    /\ calls' = calls + 1
    /\ UNCHANGED <<storageSystem, call, loopVars, raceVars, particleVars, timerVars>>

StorageModeChange ==
    /\ calls < MaxCalls
    /\ \E mode \in StorageModes \ {localStorage.mode} :
           localStorage' = [localStorage EXCEPT !.mode = mode]
    /\ calls' = calls + 1
    /\ UNCHANGED <<storageSystem, call, loopVars, raceVars, particleVars, timerVars>>

NextStorage ==
    \/ SetItem
    \/ GetItem
    \/ RemoveItem
    \/ Clear
    \/ HasItem
    \/ OtherScript
    \/ StorageModeChange

SpecStorage == InitStorage /\ [][NextStorage]_vars

----------------------------------------------------------------------------
(* A ParticleEmitter in use: the particle system updates it each frame, and
   its owner starts, stops and clears it *)

ParticleLives == {0, 16, 32, 0 - 16}
EmitterDeltas == {16, 100}

EmitterOptions ==
    {[emitRate |-> 0, emitCount |-> c, particleOptions |-> [life |-> l],
      burstMode |-> FALSE, burstCount |-> 0, burstInterval |-> 0] :
         c \in {0, 1}, l \in ParticleLives}
    \cup
    {[emitRate |-> 0, emitCount |-> 0, particleOptions |-> [life |-> l],
      burstMode |-> TRUE, burstCount |-> 2, burstInterval |-> 100] :
         l \in ParticleLives}

InitParticles ==
    /\ InitLoop
    /\ InitGame
    /\ StorageIdle
    /\ \E options \in EmitterOptions : emitter = ParticleEmitter(options)
    /\ retired = {}
    /\ emitterSteps = 0
    /\ TimersIdle

EmitterStep(this) ==
    /\ emitter' = this
    /\ emitterSteps' = emitterSteps + 1
    /\ UNCHANGED <<loopVars, raceVars, storageVars, timerVars>>

EmitterUpdate ==
    /\ emitterSteps < MaxEmitterSteps
    /\ \E deltaTime \in EmitterDeltas :
           LET this == ParticleEmitterUpdate(emitter, deltaTime)
           IN  /\ EmitterStep(this)
               /\ retired' = retired \cup this.removed

EmitterStart ==
    /\ emitterSteps < MaxEmitterSteps
    /\ EmitterStep(emitterStart(emitter))
    /\ UNCHANGED retired

EmitterStop ==
    /\ emitterSteps < MaxEmitterSteps
    /\ EmitterStep(emitterStop(emitter))
    /\ UNCHANGED retired

EmitterClear ==
    /\ emitterSteps < MaxEmitterSteps
    /\ EmitterStep(emitterClear(emitter))
    /\ UNCHANGED retired

NextParticles ==
    \/ EmitterUpdate
    \/ EmitterStart
    \/ EmitterStop
    \/ EmitterClear

SpecParticles == InitParticles /\ [][NextParticles]_vars

----------------------------------------------------------------------------
(* A TimeController and the calls made on it between and inside updates *)

TimerDelays == {50, 100}
TimerDeltas == {40, 100}
TimeScales == {-1, 1, 2}

InitTimers ==
    /\ InitLoop
    /\ InitGame
    /\ StorageIdle
    /\ ParticlesIdle
    /\ timeController = TimeController
    /\ timerSteps = 0

TimerStep(op, this) ==
    /\ timeController' = [this EXCEPT !.op = op,
                                       !.before = timeController.timers]
    /\ timerSteps' = timerSteps + 1
    /\ UNCHANGED <<loopVars, raceVars, storageVars, particleVars>>

SetTimer ==
    /\ timerSteps < MaxTimerSteps
    /\ timeController.nextTimerId <= MaxTimers
    /\ \E callback \in TimerCallbacks, delay \in TimerDelays, repeat \in BOOLEAN :
         TimerStep("setTimer", setTimer(timeController, callback, delay, repeat))

ClearTimer ==
    /\ timerSteps < MaxTimerSteps
    /\ \E timerId \in 1..(timeController.nextTimerId - 1) :
         TimerStep("clearTimer", clearTimer(timeController, timerId))

ClearAllTimers ==
    /\ timerSteps < MaxTimerSteps
    /\ timeController.timers # <<>>
    /\ TimerStep("clearAllTimers", clearAllTimers(timeController))

SetTimeScale ==
    /\ timerSteps < MaxTimerSteps
    /\ \E scale \in TimeScales :
         TimerStep("setTimeScale", setTimeScale(timeController, scale))

TimerUpdate ==
    /\ timerSteps < MaxTimerSteps
    /\ \E deltaTime \in TimerDeltas :
         TimerStep("update", timeUpdate(timeController, deltaTime))

NextTimers ==
    \/ SetTimer
    \/ ClearTimer
    \/ ClearAllTimers
    \/ SetTimeScale
    \/ TimerUpdate

SpecTimers == InitTimers /\ [][NextTimers]_vars

(* The same calls with pause() and resume() among them *)
TimePause ==
    /\ timerSteps < MaxTimerSteps
    /\ ~timeController.paused
    /\ TimerStep("pause", timePause(timeController))

TimeResume ==
    /\ timerSteps < MaxTimerSteps
    /\ timeController.paused
    /\ TimerStep("resume", timeResume(timeController))

NextTimePause ==
    \/ SetTimer
    \/ ClearTimer
    \/ ClearAllTimers
    \/ SetTimeScale
    \/ TimerUpdate
    \/ TimePause
    \/ TimeResume

SpecTimePause == InitTimers /\ [][NextTimePause]_vars

----------------------------------------------------------------------------
(* Properties of the game loop *)

CallNames == [i \in 1..Len(tick.calls) |-> tick.calls[i].cb]

CallCount(name) == Cardinality({i \in 1..Len(tick.calls) : tick.calls[i].cb = name})

(* C1, as stated: every tick run while isRunning is true invokes onUpdate
   exactly when the state is PLAYING, then onRender exactly once, then
   requests exactly one next frame. *)
C1_EveryTickUpdatesRendersSchedules ==
    tick.ran =>
        CallNames = IF tick.state = PLAYING
                    THEN <<"onUpdate", "onRender", "requestAnimationFrame">>
                    ELSE <<"onRender", "requestAnimationFrame">>

(* C1, amended: every tick run while isRunning is true invokes onUpdate
   exactly when the state is PLAYING; unless onUpdate throws, onRender is
   then invoked exactly once; unless one of the two throws, exactly one next
   frame is requested, after them.  A tick cut short by an exception
   requests no frame. *)
C1_TickUpdatesRendersSchedulesUnlessThrown ==
    tick.ran =>
        /\ ~tick.thrown =>
             CallNames = IF tick.state = PLAYING
                         THEN <<"onUpdate", "onRender", "requestAnimationFrame">>
                         ELSE <<"onRender", "requestAnimationFrame">>
        /\ tick.thrown =>
             CallNames \in IF tick.state = PLAYING
                           THEN {<<"onUpdate">>, <<"onUpdate", "onRender">>}
                           ELSE {<<"onRender">>}

C1_Witness ==
    /\ tick.ran
    /\ tick.state = PLAYING
    /\ ~tick.thrown
    /\ CallNames = <<"onUpdate", "onRender", "requestAnimationFrame">>
    /\ Cardinality(rafQueue) = 1

(* C2: the delta handed to onUpdate and onRender is the time elapsed since
   lastTime, clamped from above to maxDeltaTime: never more than
   maxDeltaTime, and the elapsed time itself when that is within the bound. *)
C2_DeltaIsClampedElapsed ==
    tick.ran =>
        \A i \in 1..Len(tick.calls) :
            tick.calls[i].cb \in {"onUpdate", "onRender"} =>
                /\ tick.calls[i].deltaTime <= maxDeltaTime
                /\ tick.elapsed <= maxDeltaTime =>
                       tick.calls[i].deltaTime = tick.elapsed
                /\ tick.elapsed > maxDeltaTime =>
                       tick.calls[i].deltaTime = maxDeltaTime

C2_Witness ==
    /\ tick.ran
    /\ tick.elapsed > maxDeltaTime
    /\ Len(tick.calls) >= 2
    /\ tick.calls[1] = [cb |-> "onUpdate", deltaTime |-> maxDeltaTime]
    /\ tick.calls[2] = [cb |-> "onRender", deltaTime |-> maxDeltaTime]

(* C3: from a pause() made in state PLAYING until the resume() that ends it,
   every tick invokes onRender and not onUpdate; after that resume() the
   ticks invoke onUpdate again; and pause() itself leaves the loop running
   with its requested frame in place. *)
C3_Ticks ==
    /\ pausePhase = "paused" => gameLoop.state = PAUSED
    /\ pausePhase = "resumed" => gameLoop.state = PLAYING
    /\ tick.ran /\ tick.phase = "paused" =>
           /\ CallCount("onUpdate") = 0
           /\ CallCount("onRender") = 1
    /\ tick.ran /\ tick.phase = "resumed" =>
           /\ CallCount("onUpdate") = 1
           /\ CallNames[1] = "onUpdate"

C3_PauseSuppressesUpdateNotRender ==
    /\ []C3_Ticks
    /\ [][Pause => /\ gameLoop'.isRunning = gameLoop.isRunning
                   /\ gameLoop'.animationId = gameLoop.animationId
                   /\ rafQueue' = rafQueue]_vars

C3_Witness ==
    /\ tick.ran
    /\ tick.phase = "resumed"
    /\ pausedTicks
    /\ CallNames = <<"onUpdate", "onRender", "requestAnimationFrame">>

----------------------------------------------------------------------------
(* Properties of the racing game's update tick *)

Range(seq) == {seq[i] : i \in 1..Len(seq)}

MaxOf(S) == CHOOSE m \in S : \A k \in S : k <= m

(* Indices of the enemy cars and power-ups on the player in game g *)
EnemiesHit(g) == {i \in 1..Len(g.enemyCars) : HitsEnemy(g, g.enemyCars[i])}

PowerUpsHit(g) == {i \in 1..Len(g.powerUps) : HitsPowerUp(g, g.powerUps[i])}

(* Indices of the enemy cars of g that one more move takes below the canvas *)
EnemiesLeaving(g) ==
    {i \in 1..Len(g.enemyCars) : g.enemyCars[i].y + g.enemyCars[i].speed > CanvasHeight}

(* C4, as stated: an enemy car in the array, moved by n ticks, is at its
   first position plus its speed times the sum of the n deltas (in seconds). *)
C4_PositionIsSpeedTimesDeltas ==
    \A i \in 1..Len(game.enemyCars) :
        LET car == game.enemyCars[i]
        IN  1000 * (car.y - car.y0) = car.speed * car.sumDt

(* C4, amended: an enemy car in the array, moved by n ticks, is at its first
   position plus n times its speed, whatever the deltas of those ticks; its
   x and its speed do not change. *)
C4_PositionIsSpeedTimesTicks ==
    \A i \in 1..Len(game.enemyCars) :
        LET car == game.enemyCars[i]
        IN  /\ car.y = car.y0 + car.speed * car.n
            /\ car.x = LaneX(car.track, car.width)
            /\ car.speed \in EnemySpeeds

C4_Witness ==
    \E i \in 1..Len(game.enemyCars) :
        /\ game.enemyCars[i].n = 2
        /\ game.enemyCars[i].sumDt = 116
        /\ game.enemyCars[i].y = game.enemyCars[i].y0 + 2 * game.enemyCars[i].speed

(* C5: updateEnemyCars removes, in the tick that takes them below the
   canvas, all the enemy cars that pass y > canvas.height and no other, each
   once; the score rises by 10 for each of them, 20 while doubleScore is
   active; a removed car is never in the array again. *)
C5_LeavingEnemiesRemovedAndScoredOnce ==
    /\ Ids(game.enemyCars) \cap game.gone = {}
    /\ Cardinality(Ids(game.enemyCars)) = Len(game.enemyCars)
    /\ last.ran =>
         LET pre  == last.afterPlayer
             post == last.afterEnemies
             out  == {pre.enemyCars[i].id : i \in EnemiesLeaving(pre)}
             kept == Ids(pre.enemyCars) \ out
         IN  /\ \A i \in 1..Len(post.enemyCars) : post.enemyCars[i].y <= CanvasHeight
             /\ out \cap Ids(post.enemyCars) = {}
             /\ kept \subseteq Ids(post.enemyCars)
             /\ Cardinality(Ids(post.enemyCars)) = Len(post.enemyCars)
             /\ post.gone = pre.gone \cup out
             /\ post.score - pre.score =
                    Cardinality(out) *
                    (IF pre.playerEffects.doubleScore.active THEN 20 ELSE 10)

C5_Witness ==
    /\ last.ran
    /\ Cardinality(EnemiesLeaving(last.afterPlayer)) = 2
    /\ last.afterEnemies.score = last.afterPlayer.score + 20
    /\ \A i \in EnemiesLeaving(last.afterPlayer) :
           last.afterPlayer.enemyCars[i].id \in game.gone

(* C6: with the shield active, checkCollisions removes the enemy car it
   finds on the player and leaves the lives alone; endGame is not called. *)
C6_ShieldedCollisionCostsNoLife ==
    last.ran =>
        LET pre  == last.afterPowerUps
            post == last.afterCollisions
        IN  pre.playerEffects.shield.active /\ EnemiesHit(pre) # {} =>
                /\ post.enemyCars = RemoveAt(pre.enemyCars, MaxOf(EnemiesHit(pre)))
                /\ post.lives = pre.lives
                /\ post.endGameCalls = pre.endGameCalls
                /\ post.gameRunning

C6_Witness ==
    /\ last.ran
    /\ last.afterPowerUps.playerEffects.shield.active
    /\ EnemiesHit(last.afterPowerUps) # {}
    /\ last.afterCollisions.lives = 1
    /\ Len(last.afterCollisions.enemyCars) = Len(last.afterPowerUps.enemyCars) - 1

(* C7: with the shield not active, checkCollisions removes the enemy car it
   finds on the player, takes exactly one life, and calls endGame exactly
   when no life is left. *)
C7_UnshieldedCollisionTakesOneLife ==
    last.ran =>
        LET pre  == last.afterPowerUps
            post == last.afterCollisions
        IN  ~pre.playerEffects.shield.active /\ EnemiesHit(pre) # {} =>
                /\ post.enemyCars = RemoveAt(pre.enemyCars, MaxOf(EnemiesHit(pre)))
                /\ post.lives = pre.lives - 1
                /\ post.endGameCalls =
                       pre.endGameCalls + (IF post.lives <= 0 THEN 1 ELSE 0)

C7_Witness ==
    /\ last.ran
    /\ ~last.afterPowerUps.playerEffects.shield.active
    /\ EnemiesHit(last.afterPowerUps) # {}
    /\ last.afterCollisions.lives = 0
    /\ last.afterCollisions.endGameCalls = 1

(* C8: endGame is called once, when the lives reach zero, and never again:
   the game is then not running, so no later tick takes a life or ends the
   game a second time. *)
C8_GameOverExactlyOnce ==
    /\ game.endGameCalls <= 1
    /\ game.lives >= 0
    /\ game.lives = 0 <=> game.endGameCalls = 1
    /\ game.endGameCalls = 1 => ~game.gameRunning /\ game.gameOverScreen = "flex"

C8_Witness ==
    /\ game.endGameCalls = 1
    /\ game.lives = 0
    /\ \E i \in 1..Len(game.enemyCars) :
           /\ game.enemyCars[i].track = game.playerCar.track
           /\ game.enemyCars[i].y < game.playerCar.y

(* C9: a timed effect picked up again while active stays active until the
   endTime the later pickup set: no effect is off while the time is before
   its endTime. *)
C9_EffectActiveUntilEndTime ==
    \A e \in DOMAIN game.playerEffects :
        dateNow < game.playerEffects[e].endTime => game.playerEffects[e].active

(* C10: in a tick in which no enemy car is on the player, checkCollisions
   removes every power-up on the player, each once, keeps the others, and
   applies each removed one's effect: active = true and
   endTime = now + the type's duration. *)
C10_PowerUpsOnPlayerCollected ==
    last.ran =>
        LET pre  == last.afterPowerUps
            post == last.afterCollisions
            hit  == PowerUpsHit(pre)
        IN  EnemiesHit(pre) = {} =>
                /\ Ids(post.powerUps) =
                       {pre.powerUps[i].id : i \in (1..Len(pre.powerUps)) \ hit}
                /\ Len(post.powerUps) = Len(pre.powerUps) - Cardinality(hit)
                /\ Range(post.powerUps) \subseteq Range(pre.powerUps)
                /\ post.gone = pre.gone \cup {pre.powerUps[i].id : i \in hit}
                /\ Len(post.timeouts) = Len(pre.timeouts) + Cardinality(hit)
                /\ \A i \in hit :
                       LET type == POWERUP_TYPES[pre.powerUps[i].type]
                           effect == post.playerEffects[EffectOf(type.id)]
                       IN  /\ effect.active
                           /\ effect.endTime = last.now + type.duration
                /\ \A e \in DOMAIN pre.playerEffects :
                       (\A i \in hit :
                            EffectOf(POWERUP_TYPES[pre.powerUps[i].type].id) # e)
                       => post.playerEffects[e] = pre.playerEffects[e]

C10_Witness ==
    /\ last.ran
    /\ EnemiesHit(last.afterPowerUps) = {}
    /\ Cardinality(PowerUpsHit(last.afterPowerUps)) = 2
    /\ last.afterCollisions.powerUps = <<>>
    /\ last.afterCollisions.playerEffects.doubleScore.active
    /\ last.afterCollisions.playerEffects.doubleScore.endTime = last.now + 30000
    /\ last.afterCollisions.playerEffects.magnet.active

(* C11: while an effect is active its endTime never decreases, whatever
   pickups, ticks, timeouts and handlers follow, the clock not going back. *)
C11_EndTimeNeverDecreasesWhileActive ==
    [][\A e \in DOMAIN game.playerEffects :
           game.playerEffects[e].active =>
               game'.playerEffects[e].endTime >= game.playerEffects[e].endTime]_vars

C11_Witness ==
    /\ game.playerEffects.shield.active
    /\ game.playerEffects.shield.endTime = 4500
    /\ Len(game.timeouts) = 2
    /\ \A i \in 1..Len(game.timeouts) : game.timeouts[i].powerUpType.id = "shield"
    /\ game.timeouts[1].due = 3000

(* C12: the expiry check of a tick clears every active effect whose endTime
   the time of the tick has reached, and leaves alone every effect whose
   endTime is still ahead: after a tick no effect is active at or past its
   endTime. *)
C12_TickClearsEffectsAtEndTime ==
    last.ran =>
        \A e \in DOMAIN last.after.playerEffects :
            LET pre  == last.afterCollisions.playerEffects[e]
                post == last.after.playerEffects[e]
            IN  /\ last.now >= post.endTime => ~post.active
                /\ pre.active /\ last.now >= pre.endTime => ~post.active
                /\ last.now < pre.endTime => post = pre

C12_Witness ==
    /\ last.ran
    /\ last.now = 3000
    /\ last.afterCollisions.playerEffects.shield.active
    /\ last.afterCollisions.playerEffects.shield.endTime = 3000
    /\ ~last.after.playerEffects.shield.active
    /\ Len(last.after.timeouts) = 1

(* What update() must leave alone while the game is paused, not running or
   counting down *)
Suspended(g) ==
    [enemyCars |-> g.enemyCars, powerUps |-> g.powerUps, score |-> g.score,
     lives |-> g.lives, trackProgress |-> g.trackProgress,
     currentLap |-> g.currentLap, speed |-> g.playerCar.speed,
     track |-> g.playerCar.track]

(* C13: update(dt) called while gamePaused is true, or the game is not
   running, or the countdown is active, leaves the enemy cars, the
   power-ups, score, lives, trackProgress, currentLap and the player's
   speed and track as they were, at every such tick. *)
C13_PausedTickChangesNothing ==
    last.skipped =>
        /\ ~last.before.gameRunning \/ last.before.gamePaused
              \/ last.before.countDownActive
        /\ Suspended(last.after) = Suspended(last.before)
        /\ last.after = last.before

C13_Witness ==
    /\ last.skipped
    /\ last.before.gamePaused
    /\ last.before.gameRunning
    /\ EnemiesHit(AfterEnemies(last.before, 16, <<>>)) # {}
    /\ game = last.after

(* C14, as stated: every tick of the loop taken while the racing game is
   paused draws the scene. *)
C14_PausedTickDraws ==
    tick.ran /\ tick.before.gamePaused => tick.after.drawn

(* C14, amended: every tick of the loop calls render() once; render() draws
   exactly when the game is running, not paused and not counting down, so a
   tick taken while the game is paused draws nothing, and leaves the game
   as it was. *)
C14_PausedTickRendersNothing ==
    tick.ran =>
        /\ CallCount("onRender") = 1
        /\ tick.after.drawn <=>
               /\ tick.after.gameRunning
               /\ ~tick.after.gamePaused
               /\ ~tick.after.countDownActive
        /\ tick.before.gamePaused =>
               /\ ~tick.after.drawn
               /\ Suspended(tick.after) = Suspended(tick.before)

C14_Witness ==
    /\ tick.ran
    /\ tick.before.gamePaused
    /\ tick.before.drawn
    /\ tick.state = PLAYING
    /\ CallCount("onUpdate") = 1
    /\ CallCount("onRender") = 1
    /\ ~tick.after.drawn

(* The state the racing game's callbacks share *)
EffectFlags(g) == [e \in DOMAIN g.playerEffects |-> g.playerEffects[e].active]

Shared(g) ==
    [enemyCars |-> g.enemyCars, powerUps |-> g.powerUps, score |-> g.score,
     lives |-> g.lives, flags |-> EffectFlags(g), playerCar |-> g.playerCar]

(* C15, as stated: a step that is not a tick of update(), that is a step of
   an input handler or of a timeout, leaves enemyCars, powerUps, score,
   lives, the playerEffects flags and playerCar as they were. *)
C15_OnlyTicksTouchSharedState ==
    [][last' = last => Shared(game') = Shared(game)]_vars

(* C15, amended: a step that is not a tick leaves enemyCars, powerUps, score
   and lives as they were.  playerCar changes outside the ticks only by
   handleTouchMove in a running game that is not paused (track, x and
   speed) and by a timeout (isInvulnerable); the playerEffects flags change
   outside the ticks only by a timeout, which clears them; the key, pause
   and blur handlers change none of this. *)
C15_HandlersTouchOnlyCarAndFlags ==
    [][last' = last =>
         LET timeout == Len(game'.timeouts) < Len(game.timeouts)
             touch   == /\ game'.events = game.events + 1
                        /\ game'.keys = game.keys
                        /\ game'.gamePaused = game.gamePaused
         IN  /\ game'.enemyCars = game.enemyCars
             /\ game'.powerUps = game.powerUps
             /\ game'.score = game.score
             /\ game'.lives = game.lives
             /\ EffectFlags(game') # EffectFlags(game) =>
                    /\ timeout
                    /\ \A e \in DOMAIN game.playerEffects :
                           game'.playerEffects[e].active => game.playerEffects[e].active
             /\ game'.playerCar # game.playerCar =>
                    \/ /\ timeout
                       /\ game'.playerCar =
                              [game.playerCar EXCEPT !.isInvulnerable = FALSE]
                    \/ /\ touch
                       /\ game.gameRunning /\ ~game.gamePaused
                       /\ game'.playerCar =
                              [game.playerCar EXCEPT
                                  !.track = game'.playerCar.track,
                                  !.x = LaneX(game'.playerCar.track, game.playerCar.width),
                                  !.speed = game'.playerCar.speed]
             /\ ~timeout /\ ~touch => Shared(game') = Shared(game)]_vars

C15_Witness ==
    /\ last.ran
    /\ last.after.playerCar.track = 1
    /\ last.after.playerEffects.shield.active
    /\ game.playerCar.track = 2
    /\ game.lastLaneChangeTime = 3000
    /\ ~game.playerEffects.shield.active
    /\ game.timeouts = <<>>

(* C16, as stated: the state of the loop is always one of menu, playing,
   paused and game_over. *)
C16_StateIsOneOfFour ==
    gameLoop.state \in {MENU, PLAYING, PAUSED, GAME_OVER}

(* C16, amended: the state of the loop is 'initializing' from construction
   on and afterwards a value handed to setState, which stores what it is
   given, member of GameState or not; it is playing only once the loop has
   been started; pause() leaves the state paused and a resume() ending a
   pause leaves it playing. *)
C16_StateIsInitialOrAsSet ==
    /\ gameLoop.state \in {INITIALIZING} \cup AnyStateInputs
    /\ gameLoop.state = PLAYING => nextRafId > 1
    /\ pausePhase = "paused" => gameLoop.state = PAUSED
    /\ pausePhase = "resumed" => gameLoop.state = PLAYING

C16_Witness ==
    /\ gameLoop.state = "victory"
    /\ gameLoop.isRunning
    /\ gameLoop.animationId # null

----------------------------------------------------------------------------
(* Storage *)

Unavailable == ~storageSystem.supported \/ call.before.mode = "denied"

ItemChanged(before, after, key) ==
    \/ (key \in DOMAIN before.items) # (key \in DOMAIN after.items)
    \/ /\ key \in DOMAIN before.items
       /\ key \in DOMAIN after.items
       /\ before.items[key] # after.items[key]

ChangedKeys(before, after) ==
    {key \in DOMAIN before.items \cup DOMAIN after.items :
        ItemChanged(before, after, key)}

PrefixedKeys(ls) == {key \in DOMAIN ls.items : startsWith(key, prefix)}

(* C17: no method of the StorageSystem throws.  While localStorage is
   unavailable setItem, removeItem, clear and hasItem return false, getItem
   returns the caller's default and the store is left as it was.  When an
   operation inside setItem or getItem throws, the error is caught, setItem
   returns false and getItem returns the default. *)
C17_StorageFailuresDegradeToDefaults ==
    call.op # "none" =>
        /\ ~call.threw
        /\ Unavailable =>
               /\ call.op \in {"setItem", "removeItem", "clear", "hasItem"} =>
                      call.returned = FALSE
               /\ call.op = "getItem" => call.returned = call.argument
               /\ call.after = call.before
        /\ call.caught =>
               /\ call.op = "setItem" => call.returned = FALSE
               /\ call.op = "getItem" => call.returned = call.argument
               /\ call.after = call.before

(* C17's case: getItem finds a malformed text under its key in a store that
   works, JSON.parse throws, and the caller gets the default *)
C17_Witness ==
    /\ call.op = "getItem"
    /\ storageSystem.supported
    /\ call.before.mode = "ok"
    /\ (prefix \o call.key) \in DOMAIN call.before.items
    /\ call.caught
    /\ call.returned = call.argument

(* C18, as stated: a setItem changes only keys that start with
   'gameverse_', and after clear(false) no key with the prefix is left while
   every other key has kept its item. *)
C18_ClearRemovesAllPrefixedKeys ==
    /\ call.op = "setItem" =>
           \A key \in ChangedKeys(call.before, call.after) :
               startsWith(key, "gameverse_")
    /\ call.op = "clear" /\ call.argument = FALSE =>
           /\ PrefixedKeys(call.after) = {}
           /\ \A key \in ChangedKeys(call.before, call.after) :
                  startsWith(key, "gameverse_")

(* C18, amended: a setItem changes no key but 'gameverse_' followed by the
   key it was given, and holds that key's item when it returns true.
   clear(false) changes only keys that start with 'gameverse_' and adds
   none; when it returns true none of them is left; it returns false, with
   the store as it was, when the StorageSystem found localStorage
   unsupported on construction or the access throws. *)
C18_ClearRemovesPrefixedKeysWhenItSucceeds ==
    /\ call.op = "setItem" =>
           /\ ChangedKeys(call.before, call.after) \subseteq
                  {"gameverse_" \o call.key}
           /\ call.returned = TRUE =>
                  ("gameverse_" \o call.key) \in DOMAIN call.after.items
    /\ call.op = "clear" /\ call.argument = FALSE =>
           /\ \A key \in ChangedKeys(call.before, call.after) :
                  startsWith(key, "gameverse_")
           /\ DOMAIN call.after.items \subseteq DOMAIN call.before.items
           /\ call.returned = TRUE => PrefixedKeys(call.after) = {}
           /\ call.returned = FALSE <=> Unavailable
           /\ call.returned = FALSE => call.after = call.before

(* C18's case: clear(false) on a store that holds keys with and without the
   prefix returns true and leaves the ones without *)
C18_Witness ==
    /\ call.op = "clear"
    /\ call.argument = FALSE
    /\ call.returned = TRUE
    /\ PrefixedKeys(call.before) # {}
    /\ DOMAIN call.before.items \ PrefixedKeys(call.before) # {}
    /\ PrefixedKeys(call.after) = {}
    /\ call.after.items = [key \in DOMAIN call.before.items \
                              PrefixedKeys(call.before) |->
                                call.before.items[key]]

----------------------------------------------------------------------------
(* Particles *)

(* C19: every particle of the emitter that has been through an update has
   life > 0, so that an update which brings a particle to life <= 0 does not
   keep it; a particle once removed is not among the particles again; and no
   particle is in the list twice. *)
C19_UpdatedParticlesAreAlive ==
    /\ \A i \in 1..Len(emitter.particles) :
           emitter.particles[i].age > 0 => emitter.particles[i].life > 0
    /\ \A i \in 1..Len(emitter.particles) :
           emitter.particles[i].id \notin retired
    /\ \A i, j \in 1..Len(emitter.particles) :
           emitter.particles[i].id = emitter.particles[j].id => i = j

(* C19's case: an update has removed a particle whose life ran out and kept
   one that still has life *)
C19_Witness ==
    /\ emitter.removed # {}
    /\ \E i \in 1..Len(emitter.particles) :
           /\ emitter.particles[i].age > 0
           /\ emitter.particles[i].life > 0

----------------------------------------------------------------------------
(* Frame callbacks pending *)

(* C20, as stated: at any time at most one frame callback of the loop is
   requested and not yet run or cancelled, whatever start(), stop() and
   setState() calls were made, from outside or from inside a callback of a
   tick. *)
C20_AtMostOneFrameCallbackPending == Cardinality(rafQueue) <= 1

----------------------------------------------------------------------------
(* Callbacks of a stopped loop *)

(* C21, as stated: once stop() has returned, and until start() or
   setState(PLAYING) sets isRunning again, neither onUpdate nor onRender is
   invoked; this includes a stop() called from inside onUpdate during a
   tick. *)
C21_NoCallbackWhileStopped ==
    tick.ran =>
        \A i \in 1..Len(tick.whileStopped) :
            tick.whileStopped[i] \notin {"onUpdate", "onRender"}

----------------------------------------------------------------------------
(* pause, resume, togglePause *)

(* C24: pause() takes PLAYING to PAUSED and resume() takes PAUSED to
   PLAYING, each with one onStateChange call; in every other state they
   leave the state as it is and call onStateChange not at all.  Two
   togglePause() calls in a row from PLAYING or PAUSED end in the state they
   started from, and from any other state they change nothing and call
   onStateChange not at all. *)
C24_PauseResumeOnlyFromTheirState ==
    "op" \in DOMAIN tick =>
         /\ tick.op = "pause" =>
               IF tick.state = PLAYING
               THEN /\ gameLoop.state = PAUSED
                    /\ tick.stateChanges = << <<PAUSED, PLAYING>> >>
               ELSE /\ gameLoop.state = tick.state
                    /\ tick.stateChanges = <<>>
         /\ tick.op = "resume" =>
               IF tick.state = PAUSED
               THEN /\ gameLoop.state = PLAYING
                    /\ tick.stateChanges = << <<PLAYING, PAUSED>> >>
               ELSE /\ gameLoop.state = tick.state
                    /\ tick.stateChanges = <<>>
         /\ tick.op = "togglePause twice" =>
               /\ gameLoop.state = tick.state
               /\ tick.state \notin {PLAYING, PAUSED} =>
                      /\ tick.stateChanges = <<>>
                      /\ gameLoop.isRunning = tick.isRunning

(* C24's case: two togglePause() calls on a paused loop, which resume and
   pause it again *)
C24_Witness ==
    /\ "op" \in DOMAIN tick
    /\ tick.op = "togglePause twice"
    /\ tick.state = PAUSED
    /\ tick.stateChanges = << <<PLAYING, PAUSED>>, <<PAUSED, PLAYING>> >>
    /\ gameLoop.state = PAUSED

----------------------------------------------------------------------------
(* A callback that throws *)

ThrowingTick == tick.ran /\ "op" \in DOMAIN tick /\ tick.thrown

Invoked(name) == \E i \in 1..Len(tick.calls) : tick.calls[i].cb = name

(* onUpdate ran in the tick and did this *)
UpdateDid(b) == Invoked("onUpdate") /\ tick.inner[1] = b

Frozen == gameLoop.isRunning /\ rafQueue = {}

(* C22, as stated: after a tick in which onUpdate or onRender threw and
   which left isRunning true, no frame callback is pending, so that the
   loop does not tick again. *)
C22_ThrowLeavesNoFramePending ==
    ThrowingTick /\ gameLoop.isRunning => rafQueue = {}

(* The frames that were pending beside the one of the tick just run *)
PendingBeside == tick.raf \ {tick.inner[3]}

(* C22, amended: a tick in which a callback throws requests no frame itself
   and leaves isRunning as the callbacks left it: true unless onUpdate
   called stop() before onRender threw.  The frames pending after it are the
   ones that were pending beside it, less the one that a stop() in onUpdate
   cancelled, and one more when onUpdate restarted the loop.  While
   isRunning is true and no frame is pending, no call but stop() followed by
   start() or setState(PLAYING) makes a frame pending. *)
C22_ThrowingTickRequestsNoFrame ==
    /\ [](ThrowingTick =>
            /\ ~Invoked("requestAnimationFrame")
            /\ gameLoop.isRunning = ~UpdateDid("stop")
            /\ (~UpdateDid("stop") /\ ~UpdateDid("restart"))
                 => rafQueue = PendingBeside
            /\ UpdateDid("stop")
                 => /\ rafQueue \subseteq PendingBeside
                    /\ Cardinality(rafQueue) >= Cardinality(PendingBeside) - 1
            /\ UpdateDid("restart")
                 => /\ Cardinality(rafQueue \ PendingBeside) = 1
                    /\ Cardinality(PendingBeside \ rafQueue) <= 1)
    /\ [][Frozen /\ gameLoop'.isRunning => rafQueue' = {}]_vars

(* C22's case: a callback threw in the tick just run, the loop is still
   marked running and nothing is pending *)
C22_Witness == ThrowingTick /\ Frozen

----------------------------------------------------------------------------
(* The sign of deltaTime *)

(* C23, as stated: the deltaTime handed to onUpdate is never negative. *)
C23_DeltaNeverNegative ==
    tick.ran =>
        \A i \in 1..Len(tick.calls) :
            tick.calls[i].cb = "onUpdate" => tick.calls[i].deltaTime >= 0

----------------------------------------------------------------------------
(* One collision per tick *)

(* C25: a tick takes at most one life.  When enemy cars are on the player,
   checkCollisions removes one of them, the last in the array, and returns:
   the other enemy cars, the power-ups (one on the player included) and the
   effects are as they were. *)
C25_OneEnemyCollisionPerTick ==
    last.ran =>
        LET pre  == last.afterPowerUps
            post == last.afterCollisions
        IN  /\ last.after.lives >= last.afterPlayer.lives - 1
            /\ EnemiesHit(pre) # {} =>
                   /\ post.enemyCars = RemoveAt(pre.enemyCars, MaxOf(EnemiesHit(pre)))
                   /\ post.lives >= pre.lives - 1
                   /\ post.powerUps = pre.powerUps
                   /\ post.playerEffects = pre.playerEffects
                   /\ post.timeouts = pre.timeouts

(* C25's case: two enemy cars and a power-up are on the player in one tick;
   one car is removed, one life taken, the power-up is still there *)
C25_Witness ==
    /\ last.ran
    /\ Cardinality(EnemiesHit(last.afterPowerUps)) = 2
    /\ PowerUpsHit(last.afterPowerUps) # {}
    /\ ~last.afterPowerUps.playerEffects.shield.active
    /\ last.afterCollisions.lives = last.afterPowerUps.lives - 1
    /\ Len(last.afterCollisions.enemyCars) = 1
    /\ PowerUpsHit(last.afterCollisions) # {}

----------------------------------------------------------------------------
(* C26: playerCar.track is always one of the lanes 0..trackCount-1, and
   every step that changes the lane, a keyboard lane change in an update
   tick or a touch lane change in handleTouchMove, leaves playerCar.x at
   the centred x of the new lane, however the two kinds of lane change are
   interleaved. *)
C26_CarStaysCentredOnALane ==
    /\ [](game.playerCar.track \in 0..(trackCount - 1))
    /\ [][game'.playerCar.track # game.playerCar.track
            => game'.playerCar.x =
                   game'.playerCar.track * trackWidth
                       + (trackWidth - game'.playerCar.width) \div 2]_vars

(* A tick moved the car from lane 1 to lane 2 by the keyboard, and the one
   touch lane change made since brought it back to lane 1 *)
C26_Witness ==
    /\ updates = 1
    /\ last.ran
    /\ last.afterPlayer.playerCar.track = 2
    /\ game.lastLaneChangeTime = dateNow
    /\ dateNow = 1500
    /\ game.playerCar.track = 1
    /\ game.playerCar.x = 275

(* C27: the player's speed stays within [0, maxSpeed] after every update
   tick and every touch-move event, for any sequence of key states and
   swipes. *)
C27_SpeedWithinZeroAndMax ==
    /\ 0 <= game.playerCar.speed
    /\ game.playerCar.speed <= game.playerCar.maxSpeed

(* The tick that has just run completed a lap in updatePlayerCar *)
LapCompleted ==
    /\ last.ran
    /\ updates = 1
    /\ last.afterPlayer.currentLap = 1

(* C28 as stated: after every update tick 0 <= trackProgress < 100, a tick
   in which the progress reaches 100 resets it to 0, adds exactly 1 to
   currentLap and exactly 100 to the score, and a tick that leaves the
   player's speed <= 0 does not change trackProgress. *)
C28_LapTickAddsExactly100 ==
    [][updates' = updates + 1
         => /\ 0 <= game'.trackProgress
            /\ game'.trackProgress < 300000
            /\ (game.trackProgress + last'.afterPlayer.playerCar.speed >= 300000
                    /\ last'.afterPlayer.playerCar.speed > 0)
                 => /\ game'.trackProgress = 0
                    /\ game'.currentLap = game.currentLap + 1
                    /\ game'.score = game.score + 100
            /\ last'.afterPlayer.playerCar.speed <= 0
                 => game'.trackProgress = game.trackProgress]_vars

(* C28: after every update tick 0 <= trackProgress < 100; when the progress
   reaches 100 in a tick, updatePlayerCar resets it to 0, adds exactly 1 to
   currentLap and exactly 100 to the score, to which the rest of the tick
   may add the points it scores itself; a tick that leaves the player's
   speed <= 0 does not change trackProgress. *)
C28_LapAdds100BesidesOtherPoints ==
    [][updates' = updates + 1
         => /\ 0 <= game'.trackProgress
            /\ game'.trackProgress < 300000
            /\ (game.trackProgress + last'.afterPlayer.playerCar.speed >= 300000
                    /\ last'.afterPlayer.playerCar.speed > 0)
                 => /\ game'.trackProgress = 0
                    /\ game'.currentLap = game.currentLap + 1
                    /\ last'.afterPlayer.score = game.score + 100
                    /\ game'.score >= game.score + 100
            /\ last'.afterPlayer.playerCar.speed <= 0
                 => game'.trackProgress = game.trackProgress]_vars

(* A lap completed in the tick in which an enemy car left the canvas *)
C28_Witness ==
    /\ LapCompleted
    /\ game.trackProgress = 0
    /\ game.currentLap = 1
    /\ game.score = 110
    /\ game.gone # {}

----------------------------------------------------------------------------
(* The timers registered in the controller *)
Registered == {timeController.timers[i] : i \in 1..Len(timeController.timers)}

(* The callbacks called by the latest update(), in the order of the calls *)
Fired == {timeController.pass[i] : i \in 1..Len(timeController.pass)}

(* C29: the callback of a non-repeating timer is called at most once, in
   the first update() at which the scaled time passed since the timer was
   set (the sum of deltaTime * timeScale) has reached its delay, never
   before, and the timer is then removed from the table. *)
C29_OneShotFiresWhenDelayHasPassed ==
    /\ \A id \in DOMAIN timeController.fires :
          ~timeController.fires[id].repeat => timeController.fires[id].count <= 1
    /\ \A t \in Registered :
          ~t.repeat => timeController.fires[t.id].count = 0
    /\ timeController.op = "update"
         => /\ \A f \in Fired : ~f.repeat => f.sinceSet >= f.delay
            /\ \A t \in Registered :
                  ~t.repeat => timeController.scaledTime - t.setAt < t.delay

(* C30: a repeating timer fires in every update() at which its elapsed time
   has reached its delay and in no other, once per update() however large
   deltaTime is; it restarts from elapsed = 0 and stays registered until
   clearTimer or clearAllTimers is called. *)
C30_RepeatingTimerFiresOncePerUpdate ==
    /\ \A b \in {timeController.before[i] : i \in 1..Len(timeController.before)} :
          b.repeat
            => \/ b.id \in TimerIds(timeController.timers)
               \/ timeController.op \in {"clearTimer", "clearAllTimers"}
               \/ /\ timeController.op = "update"
                  /\ \E f \in Fired :
                        \/ f.callback = "clearAllTimers"
                        \/ f.callback = "clearTimer" /\ f.id + 1 = b.id
    /\ \A t \in Registered : t.repeat => t.elapsed < t.delay
    /\ timeController.op = "update"
         => /\ \A i, j \in 1..Len(timeController.pass) :
                  i # j => timeController.pass[i].id # timeController.pass[j].id
            /\ \A f \in Fired : f.repeat => f.elapsed >= f.delay
            /\ \A b \in {timeController.before[i] :
                              i \in 1..Len(timeController.before)} :
                  (b.repeat /\ b.id \in TimerIds(timeController.timers))
                    => /\ (b.elapsed + timeController.scaledDelta >= b.delay)
                            <=> (\E f \in Fired : f.id = b.id)
                       /\ \A t \in Registered :
                             t.id = b.id
                               => t.elapsed =
                                      IF \E f \in Fired : f.id = b.id
                                      THEN 0
                                      ELSE b.elapsed + timeController.scaledDelta

(* A repeating timer that has fired in two updates, the latest of them long
   enough for two rounds, and is registered with elapsed = 0 *)
C30_Witness ==
    /\ timeController.op = "update"
    /\ \E f \in Fired :
          /\ f.repeat
          /\ f.elapsed >= 2 * f.delay
          /\ timeController.fires[f.id].count = 2
          /\ \E t \in Registered : t.id = f.id /\ t.elapsed = 0

----------------------------------------------------------------------------
(* C31: the callback of a timer that clearTimer or clearAllTimers has
   cleared is never called again, whether it was cleared between two
   updates or by the callback of another timer in the pass that would have
   called it; the ids that setTimer returns are all different. *)
C31_ClearedTimersNeverFire ==
    /\ \A f \in Fired : ~f.wasCleared
    /\ timeController.cleared \cap TimerIds(timeController.timers) = {}
    /\ \A i, j \in 1..Len(timeController.issued) :
          i # j => timeController.issued[i] # timeController.issued[j]

(* The callback of a due timer has cleared the timer set after it, which
   was due in the same pass and has not been called *)
C31_Witness ==
    /\ timeController.op = "update"
    /\ \E f \in Fired :
          /\ f.callback = "clearTimer"
          /\ f.id + 1 \in timeController.cleared
          /\ \E i \in 1..Len(timeController.before) :
                /\ timeController.before[i].id = f.id + 1
                /\ timeController.before[i].elapsed + timeController.scaledDelta
                       >= timeController.before[i].delay
          /\ \A g \in Fired : g.id # f.id + 1

----------------------------------------------------------------------------
(* C32, as stated: an update(dt) made between pause() and resume() leaves
   gameTime as it was, advances no timer and calls no timer callback. *)
C32_PausedUpdateAdvancesNothing ==
    [][(timeController.paused /\ timerSteps' = timerSteps + 1
            /\ timeController'.op = "update")
         => /\ timeController'.gameTime = timeController.gameTime
            /\ timeController'.timers = timeController.timers
            /\ timeController'.pass = <<>>]_vars

----------------------------------------------------------------------------
(* A timer found by the latest update() that was due in it *)
DueIn(b) == b.active /\ b.elapsed + timeController.scaledDelta >= b.delay

(* The callback of a timer called by the latest update() cleared timer b *)
ClearedInPass(b) ==
    \E f \in Fired :
        \/ f.callback = "clearAllTimers"
        \/ f.callback = "clearTimer" /\ f.id + 1 = b.id

(* C33: an exception thrown by a timer callback does not leave update();
   in a pass in which a callback throws, every due timer that no callback
   has cleared is still called, and a one-shot timer whose callback threw
   has been called once and is no longer registered. *)
C33_ThrowingCallbackIsIsolated ==
    /\ ~timeController.thrown
    /\ (timeController.op = "update" /\ \E f \in Fired : f.callback = "throw")
         => /\ \A i \in 1..Len(timeController.before) :
                  LET b == timeController.before[i]
                  IN  DueIn(b) =>
                          \/ \E f \in Fired : f.id = b.id
                          \/ ClearedInPass(b)
            /\ \A f \in Fired :
                  (f.callback = "throw" /\ ~f.repeat)
                    => /\ f.id \notin TimerIds(timeController.timers)
                       /\ timeController.fires[f.id].count = 1

(* A one-shot timer threw and the due timer after it was called in the
   same pass *)
C33_Witness ==
    /\ timeController.op = "update"
    /\ Len(timeController.pass) = 2
    /\ timeController.pass[1].callback = "throw"
    /\ ~timeController.pass[1].repeat
    /\ timeController.pass[2].id > timeController.pass[1].id
    /\ timeController.pass[1].id \notin TimerIds(timeController.timers)

====
